---- MODULE Spec2Model ----
(***************************************************************************)
(* LangDev: the object simplifier (langdev.objsimplify), the visitor       *)
(* dispatch it is built on (langdev.util.visitor) and the serializers      *)
(* (langdev.web.serializers) that call it, over a small forum database.    *)
(*                                                                         *)
(* Python values are records tagged with their runtime type:               *)
(*   [type |-> "NoneType"], [type |-> "bool", bool |-> TRUE],              *)
(*   [type |-> "int", int |-> 3], [type |-> "unicode", str |-> "x"],       *)
(*   [type |-> "datetime", ymd |-> <<y, m, d>>, hms |-> <<h, m, s>>],      *)
(*   [type |-> "list", elems |-> <<...>>], [type |-> "dict", items |-> f,  *)
(*   src |-> the object the mapping was made for],                         *)
(*   [type |-> "User", id |-> 1] (a mapped object, fields in the tables),  *)
(*   [type |-> "function", name |-> "transform_User"], and an exception    *)
(*   in flight is [type |-> "RuntimeError"] and so on.                     *)
(***************************************************************************)
EXTENDS Integers, Sequences, FiniteSets, TLC

\* the tables, the registries, the browser's session, the request under
\* way and its answer; the clock, the mails sent with a token, and those of
\* them sent before their recipient's password hash was changed
VARIABLES users, posts, comments, applications, visitor, content_types,
          session, call, result, now, outbox, stale

vars ==
    <<users, posts, comments, applications, visitor, content_types, session,
      call, result, now, outbox, stale>>

(***************************************************************************)
(* Bounds of the model.                                                    *)
(***************************************************************************)
\* the number of comments the forum may hold
MaxComments == 2
\* the interpreter's limit on nested simplify() frames
RecursionLimit == 8
\* the number of registrations made on the doctest visitor
MaxVisits == 2
\* the number of entries of an Accept header
MaxAccept == 2
\* the number of characters of a label given to the identifier functions
MaxLabel == 4
\* the number of pages and the width of a pager
MaxLength == 9
MaxWidth == 5
\* the number of arguments of a query string
MaxArgs == 2
\* the clock stops at MaxTime ticks
MaxTime == 2
\* mails with a token that are sent
MaxTokens == 2

(***************************************************************************)
(* Python values.                                                          *)
(***************************************************************************)
PyNone == [type |-> "NoneType"]
PyBool(b) == [type |-> "bool", bool |-> b]
PyInt(n) == [type |-> "int", int |-> n]
PyUnicode(s) == [type |-> "unicode", str |-> s]
PyStr(s) == [type |-> "str", str |-> s]
PyDateTime(ymd, hms) == [type |-> "datetime", ymd |-> ymd, hms |-> hms]
PyDate(ymd) == [type |-> "date", ymd |-> ymd]
PyList(elems) == [type |-> "list", elems |-> elems]
\* a lazy='dynamic' relationship: iterable, and of a type nobody registers
AppenderQuery(elems) == [type |-> "AppenderQuery", elems |-> elems]
PyFunction(name) == [type |-> "function", name |-> name]
Ref(type, id) == [type |-> type, id |-> id]
\* a langdev.user.Password: neither registered, nor iterable, nor primitive
PasswordObj(hash) == [type |-> "Password", hash_string |-> hash]

Exceptions == {"KeyError", "TypeError", "RuntimeError"}
Raise(exc) == [type |-> exc]
IsException(v) == v.type \in Exceptions

\* type.mro() of the types that occur
mro(type) ==
    CASE type \in {"User", "Post", "Comment", "Application"} ->
             <<type, "Base", "object">>
      [] type = "bool" -> <<"bool", "int", "object">>
      [] type = "long" -> <<"long", "object">>
      [] type = "datetime" -> <<"datetime", "date", "object">>
      [] type \in {"unicode", "str"} -> <<type, "basestring", "object">>
      [] type = "AppenderQuery" ->
             <<"AppenderQuery", "AppenderMixin", "Query", "object">>
      [] type = "object" -> <<"object">>
      [] OTHER -> <<type, "object">>

\* hasattr(value, '__iter__') in Python 2: strings have no __iter__
hasattr_iter(value) == value.type \in {"list", "AppenderQuery", "dict", "tuple"}

Min(S) == CHOOSE x \in S : \A y \in S : x <= y

(***************************************************************************)
(* Strings as the identifier functions see them: sequences of characters.  *)
(***************************************************************************)
Lowercase == <<"a", "b", "c", "d", "e", "f", "g", "h", "i", "j", "k", "l", "m",
               "n", "o", "p", "q", "r", "s", "t", "u", "v", "w", "x", "y", "z">>
Uppercase == <<"A", "B", "C", "D", "E", "F", "G", "H", "I", "J", "K", "L", "M",
               "N", "O", "P", "Q", "R", "S", "T", "U", "V", "W", "X", "Y", "Z">>

char_lower(c) ==
    IF \E i \in DOMAIN Uppercase : Uppercase[i] = c
    THEN Lowercase[CHOOSE i \in DOMAIN Uppercase : Uppercase[i] = c]
    ELSE c

char_upper(c) ==
    IF \E i \in DOMAIN Lowercase : Lowercase[i] = c
    THEN Uppercase[CHOOSE i \in DOMAIN Lowercase : Lowercase[i] = c]
    ELSE c

str_lower(s) == [i \in 1..Len(s) |-> char_lower(s[i])]
str_upper(s) == [i \in 1..Len(s) |-> char_upper(s[i])]

\* str.capitalize(): first character upper, the rest lower
str_capitalize(s) ==
    [i \in 1..Len(s) |-> IF i = 1 THEN char_upper(s[i]) ELSE char_lower(s[i])]

RECURSIVE str_split(_)
\* str.split(): the maximal runs of non-blank characters
str_split(s) ==
    IF s = <<>> THEN <<>>
    ELSE IF Head(s) = " " THEN str_split(Tail(s))
    ELSE LET blanks == {i \in 1..Len(s) : s[i] = " "}
             n == IF blanks = {} THEN Len(s) + 1 ELSE Min(blanks)
         IN  <<SubSeq(s, 1, n - 1)>> \o str_split(SubSeq(s, n, Len(s)))

RECURSIVE str_join(_, _)
\* sep.join(words)
str_join(sep, words) ==
    IF words = <<>> THEN <<>>
    ELSE IF Len(words) = 1 THEN words[1]
    ELSE words[1] \o sep \o str_join(sep, Tail(words))

RECURSIVE Text(_)
\* the characters of s as one string
Text(s) == IF s = <<>> THEN "" ELSE Head(s) \o Text(Tail(s))

under_scores(identifier) == str_lower(str_join(<<"_">>, str_split(identifier)))

PascalCase(identifier) ==
    LET words == str_split(identifier)
    IN  str_join(<<>>, [i \in 1..Len(words) |->
                          <<char_upper(words[i][1])>> \o Tail(words[i])])

\* camelCase with a fault: the words after the first keep the casing of
\* their other letters, as in PascalCase
camelCase_KeepsCase(identifier) ==
    LET words == str_split(identifier)
        first == str_lower(words[1])
        rest == [i \in 1..(Len(words) - 1) |->
                    <<char_upper(words[i + 1][1])>> \o Tail(words[i + 1])]
    IN  str_join(<<>>, <<first>> \o rest)

camelCase(identifier) ==
    LET words == str_split(identifier)
        first == str_lower(words[1])
        rest == [i \in 1..(Len(words) - 1) |-> str_capitalize(words[i + 1])]
    IN  str_join(<<>>, <<first>> \o rest)

\* the labels the handlers pass to identifier_map
L_ID == <<"I", "D">>
L_login == <<"l", "o", "g", "i", "n">>
L_name == <<"n", "a", "m", "e">>
L_url == <<"u", "r", "l">>
L_email == <<"e", "m", "a", "i", "l">>
L_created_at == <<"c", "r", "e", "a", "t", "e", "d", " ", "a", "t">>
L_modified_at == <<"m", "o", "d", "i", "f", "i", "e", "d", " ", "a", "t">>
L_posts_count == <<"p", "o", "s", "t", "s", " ", "c", "o", "u", "n", "t">>
L_comments_count ==
    <<"c", "o", "m", "m", "e", "n", "t", "s", " ", "c", "o", "u", "n", "t">>
L_replies_count ==
    <<"r", "e", "p", "l", "i", "e", "s", " ", "c", "o", "u", "n", "t">>
L_author == <<"a", "u", "t", "h", "o", "r">>
L_title == <<"t", "i", "t", "l", "e">>
L_sticky == <<"s", "t", "i", "c", "k", "y">>
L_body == <<"b", "o", "d", "y">>
L_replies == <<"r", "e", "p", "l", "i", "e", "s">>
L_post == <<"p", "o", "s", "t">>
L_key == <<"k", "e", "y">>
L_owner == <<"o", "w", "n", "e", "r">>
L_description ==
    <<"d", "e", "s", "c", "r", "i", "p", "t", "i", "o", "n">>
L_secret_key == <<"s", "e", "c", "r", "e", "t", "_", "k", "e", "y">>

\* options['identifier_map'](label), as a dictionary key
idmap(options, label) ==
    Text(CASE options.identifier_map = "under_scores" -> under_scores(label)
           [] options.identifier_map = "PascalCase" -> PascalCase(label)
           [] options.identifier_map = "camelCase" -> camelCase(label))

(***************************************************************************)
(* langdev.util.visitor: a Visitor is its table of registered functions    *)
(* and the function added last.                                            *)
(***************************************************************************)
\* Visitor.__init__
Visitor(name) ==
    [name |-> name, argument |-> 0, functions |-> <<>>,
     latest_added_function |-> PyNone]

\* the visitor object itself, where a function is expected (stacked decorators)
VisitorObj(v) == [type |-> "Visitor", name |-> v.name]

\* Visitor.__contains__
Contains(v, type) ==
    \/ \E i \in 1..Len(mro(type)) : mro(type)[i] \in DOMAIN v.functions
    \/ type \in DOMAIN v.functions

\* GetItem with a fault: no walk along the mro, only the type itself
GetItem_ExactType(v, type) ==
    IF type \in DOMAIN v.functions THEN v.functions[type]
    ELSE Raise("KeyError")

\* Visitor.__getitem__: the function of the first registered class of the mro
GetItem(v, type) ==
    LET hits == {i \in 1..Len(mro(type)) : mro(type)[i] \in DOMAIN v.functions}
    IN  IF hits # {} THEN v.functions[mro(type)[Min(hits)]]
        ELSE IF type \in DOMAIN v.functions THEN v.functions[type]
        ELSE Raise("KeyError")

\* Visitor.__setitem__
SetItem(v, type, function) ==
    [v EXCEPT !.functions = [t \in DOMAIN v.functions \cup {type} |->
                                IF t = type THEN function ELSE v.functions[t]],
              !.latest_added_function = function]

\* VisitorDecorator.__call__, for the decorator visitor.visit(type)
VisitorDecoratorCall(v, type, function) ==
    SetItem(v, type, IF function = VisitorObj(v)
                     THEN v.latest_added_function ELSE function)

(***************************************************************************)
(* The tables of the forum, and what the mapped classes compute from them. *)
(* A row id of 0 stands for NULL in parent.                                *)
(***************************************************************************)
NULL == 0

RECURSIVE SortedSeq(_)
\* the ids of S in increasing order (order_by created_at: ids grow with time)
SortedSeq(S) ==
    IF S = {} THEN <<>> ELSE <<Min(S)>> \o SortedSeq(S \ {Min(S)})

Refs(type, ids) == [i \in 1..Len(ids) |-> Ref(type, ids[i])]

\* User.posts, User.comments (lazy='dynamic' backrefs)
UserPosts(id) == {p \in DOMAIN posts : posts[p].author = id}
UserComments(id) == {c \in DOMAIN comments : comments[c].author = id}
\* Post.comments, Post.replies
PostComments(id) == {c \in DOMAIN comments : comments[c].post = id}
PostReplies(id) == {c \in PostComments(id) : comments[c].parent = NULL}
\* Comment.replies
CommentReplies(id) == {c \in DOMAIN comments : comments[c].parent = id}

Truthy(v) ==
    CASE v.type = "NoneType" -> FALSE
      [] v.type = "bool" -> v.bool
      [] v.type = "int" -> v.int # 0
      [] v.type \in {"unicode", "str"} -> v.str # ""
      [] v.type \in {"list", "AppenderQuery"} -> v.elems # <<>>
      [] OTHER -> TRUE

\* dict.get(key): None when the key is absent
OptionsGet(options, key) ==
    IF key \in DOMAIN options THEN options[key] ELSE PyNone

Max(S) == CHOOSE x \in S : \A y \in S : x >= y

\* a dict display {k1: v1, ...} followed by the d[k] = v stores, in order:
\* the first exception raised while the values are computed propagates.
\* src records the object the mapping was made for (not part of the dict).
MakeDict(pairs, src) ==
    LET raised == {i \in 1..Len(pairs) : IsException(pairs[i][2])}
        keys == {pairs[i][1] : i \in 1..Len(pairs)}
    IN  IF raised # {} THEN pairs[Min(raised)][2]
        ELSE [type |-> "dict", src |-> src,
              items |-> [k \in keys |->
                  pairs[Max({i \in 1..Len(pairs) : pairs[i][1] = k})][2]]]

(***************************************************************************)
(* langdev.objsimplify: the handlers registered on `transform`, and        *)
(* simplify().  depth counts the nested simplify() frames.                 *)
(***************************************************************************)
RECURSIVE simplify(_, _, _)
RECURSIVE Apply(_, _, _, _)
RECURSIVE VisitorCall(_, _, _, _)

\* transform_list with a fault: the elements get the caller's options as they are
transform_list_SameOptions(value, options, depth) ==
    LET elems == [i \in 1..Len(value.elems) |->
                    simplify(value.elems[i], options, depth + 1)]
        raised == {i \in 1..Len(elems) : IsException(elems[i])}
    IN  IF raised # {} THEN elems[Min(raised)] ELSE PyList(elems)

\* @transform.visit(collections.Iterable) @transform.visit(list)
transform_list(value, options, depth) ==
    LET opts == [k \in DOMAIN options \cup {"under_list"} |->
                    IF k = "under_list" THEN PyBool(TRUE) ELSE options[k]]
        elems == [i \in 1..Len(value.elems) |->
                    simplify(value.elems[i], opts, depth + 1)]
        raised == {i \in 1..Len(elems) : IsException(elems[i])}
    IN  IF raised # {} THEN elems[Min(raised)] ELSE PyList(elems)

\* transform_User with a fault: the url is left out when the user has none
transform_User_UrlIfSet(value, options, depth) ==
    LET u == users[value.id]
        S(v) == simplify(v, options, depth + 1)
    IN  MakeDict(
          << <<idmap(options, L_ID), S(PyInt(value.id))>>,
             <<idmap(options, L_login), S(u.login)>>,
             <<idmap(options, L_name), S(u.name)>>,
             <<idmap(options, L_created_at), S(u.created_at)>>,
             <<idmap(options, L_posts_count),
               S(PyInt(Cardinality(UserPosts(value.id))))>>,
             <<idmap(options, L_comments_count),
               S(PyInt(Cardinality(UserComments(value.id))))>> >>
          \o (IF Truthy(u.url)
              THEN << <<idmap(options, L_url), S(u.url)>> >>
              ELSE <<>>)
          \o (IF options.user = value
              THEN << <<idmap(options, L_email), S(u.email)>> >>
              ELSE <<>>),
          value)

\* transform_User with a fault: the email is shown to every signed-in viewer
transform_User_AnyViewer(value, options, depth) ==
    LET u == users[value.id]
        S(v) == simplify(v, options, depth + 1)
    IN  MakeDict(
          << <<idmap(options, L_ID), S(PyInt(value.id))>>,
             <<idmap(options, L_login), S(u.login)>>,
             <<idmap(options, L_name), S(u.name)>>,
             <<idmap(options, L_url), S(u.url)>>,
             <<idmap(options, L_created_at), S(u.created_at)>>,
             <<idmap(options, L_posts_count),
               S(PyInt(Cardinality(UserPosts(value.id))))>>,
             <<idmap(options, L_comments_count),
               S(PyInt(Cardinality(UserComments(value.id))))>> >>
          \o (IF Truthy(options.user)
              THEN << <<idmap(options, L_email), S(u.email)>> >>
              ELSE <<>>),
          value)

\* @transform.visit(langdev.user.User)
transform_User(value, options, depth) ==
    LET u == users[value.id]
        S(v) == simplify(v, options, depth + 1)
    IN  MakeDict(
          << <<idmap(options, L_ID), S(PyInt(value.id))>>,
             <<idmap(options, L_login), S(u.login)>>,
             <<idmap(options, L_name), S(u.name)>>,
             <<idmap(options, L_url), S(u.url)>>,
             <<idmap(options, L_created_at), S(u.created_at)>>,
             <<idmap(options, L_posts_count),
               S(PyInt(Cardinality(UserPosts(value.id))))>>,
             <<idmap(options, L_comments_count),
               S(PyInt(Cardinality(UserComments(value.id))))>> >>
          \o (IF options.user = value
              THEN << <<idmap(options, L_email), S(u.email)>> >>
              ELSE <<>>),
          value)

\* transform_Post with a fault: replies are left out when there are none
transform_Post_NoEmptyReplies(value, options, depth) ==
    LET p == posts[value.id]
        S(v) == simplify(v, options, depth + 1)
        replies == AppenderQuery(Refs("Comment", SortedSeq(PostReplies(value.id))))
    IN  MakeDict(
          << <<idmap(options, L_ID), S(PyInt(value.id))>>,
             <<idmap(options, L_author), S(Ref("User", p.author))>>,
             <<idmap(options, L_title), S(p.title)>>,
             <<idmap(options, L_sticky), S(p.sticky)>>,
             <<idmap(options, L_created_at), S(p.created_at)>>,
             <<idmap(options, L_modified_at), S(p.modified_at)>>,
             <<idmap(options, L_comments_count),
               S(PyInt(Cardinality(PostComments(value.id))))>>,
             <<idmap(options, L_replies_count),
               S(PyInt(Cardinality(PostReplies(value.id))))>> >>
          \o (IF ~Truthy(OptionsGet(options, "under_list"))
              THEN << <<idmap(options, L_body), S(p.body)>> >>
                   \o (IF Truthy(replies)
                       THEN << <<idmap(options, L_replies), S(replies)>> >>
                       ELSE <<>>)
              ELSE <<>>),
          value)

\* @transform.visit(langdev.forum.Post)
transform_Post(value, options, depth) ==
    LET p == posts[value.id]
        S(v) == simplify(v, options, depth + 1)
        replies == AppenderQuery(Refs("Comment", SortedSeq(PostReplies(value.id))))
    IN  MakeDict(
          << <<idmap(options, L_ID), S(PyInt(value.id))>>,
             <<idmap(options, L_author), S(Ref("User", p.author))>>,
             <<idmap(options, L_title), S(p.title)>>,
             <<idmap(options, L_sticky), S(p.sticky)>>,
             <<idmap(options, L_created_at), S(p.created_at)>>,
             <<idmap(options, L_modified_at), S(p.modified_at)>>,
             <<idmap(options, L_comments_count),
               S(PyInt(Cardinality(PostComments(value.id))))>>,
             <<idmap(options, L_replies_count),
               S(PyInt(Cardinality(PostReplies(value.id))))>> >>
          \o (IF ~Truthy(OptionsGet(options, "under_list"))
              THEN << <<idmap(options, L_body), S(p.body)>>,
                      <<idmap(options, L_replies), S(replies)>> >>
              ELSE <<>>),
          value)

\* transform_Comment with a fault: the replies are simplified first, on the
\* handler's own options, and the post sees the under_list left in them
transform_Comment_LeakedFlag(value, options, depth) ==
    LET c == comments[value.id]
        S(v) == simplify(v, options, depth + 1)
        replies ==
            AppenderQuery(Refs("Comment", SortedSeq(CommentReplies(value.id))))
        leaked == [k \in DOMAIN options \cup {"under_list"} |->
                      IF k = "under_list" THEN PyBool(TRUE) ELSE options[k]]
    IN  MakeDict(
          << <<idmap(options, L_ID), S(PyInt(value.id))>>,
             <<idmap(options, L_author), S(Ref("User", c.author))>>,
             <<idmap(options, L_body), S(c.body)>>,
             <<idmap(options, L_created_at), S(c.created_at)>>,
             <<idmap(options, L_replies_count),
               S(PyInt(Cardinality(CommentReplies(value.id))))>> >>
          \o (IF ~Truthy(OptionsGet(options, "under_list"))
              THEN << <<idmap(options, L_replies), S(replies)>>,
                      <<idmap(options, L_post),
                        simplify(Ref("Post", c.post), leaked, depth + 1)>> >>
              ELSE <<>>),
          value)

\* transform_Comment with a fault: the post is given in list context too
transform_Comment_AlwaysPost(value, options, depth) ==
    LET c == comments[value.id]
        S(v) == simplify(v, options, depth + 1)
        replies ==
            AppenderQuery(Refs("Comment", SortedSeq(CommentReplies(value.id))))
    IN  MakeDict(
          << <<idmap(options, L_ID), S(PyInt(value.id))>>,
             <<idmap(options, L_author), S(Ref("User", c.author))>>,
             <<idmap(options, L_body), S(c.body)>>,
             <<idmap(options, L_created_at), S(c.created_at)>>,
             <<idmap(options, L_replies_count),
               S(PyInt(Cardinality(CommentReplies(value.id))))>>,
             <<idmap(options, L_post), S(Ref("Post", c.post))>> >>
          \o (IF ~Truthy(OptionsGet(options, "under_list"))
              THEN << <<idmap(options, L_replies), S(replies)>> >>
              ELSE <<>>),
          value)

\* @transform.visit(langdev.forum.Comment)
transform_Comment(value, options, depth) ==
    LET c == comments[value.id]
        S(v) == simplify(v, options, depth + 1)
        replies ==
            AppenderQuery(Refs("Comment", SortedSeq(CommentReplies(value.id))))
    IN  MakeDict(
          << <<idmap(options, L_ID), S(PyInt(value.id))>>,
             <<idmap(options, L_author), S(Ref("User", c.author))>>,
             <<idmap(options, L_body), S(c.body)>>,
             <<idmap(options, L_created_at), S(c.created_at)>>,
             <<idmap(options, L_replies_count),
               S(PyInt(Cardinality(CommentReplies(value.id))))>> >>
          \o (IF ~Truthy(OptionsGet(options, "under_list"))
              THEN << <<idmap(options, L_post), S(Ref("Post", c.post))>>,
                      <<idmap(options, L_replies), S(replies)>> >>
              ELSE <<>>),
          value)

\* @transform.visit(langdev.thirdparty.Application)
transform_Application(value, options, depth) ==
    LET a == applications[value.id]
        S(v) == simplify(v, options, depth + 1)
    IN  MakeDict(
          << <<idmap(options, L_key), S(a.key)>>,
             <<idmap(options, L_owner), S(Ref("User", a.owner))>>,
             <<idmap(options, L_title), S(a.title)>>,
             <<idmap(options, L_description), S(a.description)>>,
             <<idmap(options, L_url), S(a.url)>>,
             <<idmap(options, L_created_at), S(a.created_at)>> >>
          \o (IF options.user = value
              THEN << <<idmap(options, L_secret_key), S(a.secret_key)>> >>
              ELSE <<>>),
          value)

\* the handlers of the module doctest of langdev.util.visitor
compile_int(value) == PyStr("compile_int")
compile_basestring(value) == PyStr("compile_basestring")
compile_list(value) == PyStr("compile_list")

\* f(*args, **kwargs) for a registered function f
Apply(f, value, options, depth) ==
    CASE f.type # "function" -> Raise("TypeError")
      [] f.name = "transform_list" -> transform_list(value, options, depth)
      [] f.name = "transform_User" -> transform_User(value, options, depth)
      [] f.name = "transform_Post" -> transform_Post(value, options, depth)
      [] f.name = "transform_Comment" -> transform_Comment(value, options, depth)
      [] f.name = "transform_Application" ->
             transform_Application(value, options, depth)
      [] f.name = "compile_int" -> compile_int(value)
      [] f.name = "compile_basestring" -> compile_basestring(value)
      [] f.name = "compile_list" -> compile_list(value)

\* VisitorCall with a fault: the KeyError of the lookup is not caught
VisitorCall_KeyErrorEscapes(v, value, options, depth) ==
    LET f == GetItem(v, value.type)
    IN  IF f = Raise("KeyError") THEN f
        ELSE Apply(f, value, options, depth)

\* Visitor.__call__: a lookup that fails is a TypeError, and nothing is called
VisitorCall(v, value, options, depth) ==
    LET f == GetItem(v, value.type)
    IN  IF f = Raise("KeyError") THEN Raise("TypeError")
        ELSE Apply(f, value, options, depth)

Pad(n, width) ==
    LET s == ToString(n)
    IN  IF Len(s) >= width THEN s
        ELSE IF width - Len(s) = 1 THEN "0" \o s
        ELSE IF width - Len(s) = 2 THEN "00" \o s
        ELSE "000" \o s

\* datetime.date.isoformat
date_isoformat(d) ==
    PyStr(Pad(d.ymd[1], 4) \o "-" \o Pad(d.ymd[2], 2) \o "-" \o Pad(d.ymd[3], 2))

\* datetime.datetime.isoformat
datetime_isoformat(d) ==
    PyStr(Pad(d.ymd[1], 4) \o "-" \o Pad(d.ymd[2], 2) \o "-" \o Pad(d.ymd[3], 2)
          \o "T" \o Pad(d.hms[1], 2) \o ":" \o Pad(d.hms[2], 2) \o ":"
          \o Pad(d.hms[3], 2))

\* mapf(d) for the functions the serializers put in type_map
mapf(name, d) ==
    CASE name = "datetime.isoformat" -> datetime_isoformat(d)
      [] name = "date.isoformat" -> date_isoformat(d)
      [] name = "bool" -> PyBool(Truthy(d))
      [] name = "len" -> PyInt(Len(IF d.type = "list" THEN d.elems ELSE d.str))

\* simplify, its last lines: d goes through type_map[type(d)], and is
\* returned as it is when its type has no entry; what was raised while d was
\* made propagates
type_mapped(d, type_map) ==
    IF IsException(d) THEN d
    ELSE IF d.type \in DOMAIN type_map THEN mapf(type_map[d.type], d)
    ELSE d

\* simplify with a fault: a value that is neither registered nor iterable must
\* be None, a boolean, a number, a string or a date, or TypeError is raised
simplify_Strict(value, kwargs, depth) ==
    LET defaults == [type_map |-> <<>>, url_map |-> PyNone, user |-> PyNone]
        options == [k \in DOMAIN kwargs \cup DOMAIN defaults |->
                       IF k \in DOMAIN kwargs THEN kwargs[k] ELSE defaults[k]]
        d == IF Contains(visitor, value.type)
             THEN VisitorCall(visitor, value, options, depth)
             ELSE IF hasattr_iter(value)
             THEN Apply(GetItem(visitor, "Iterable"), value, options, depth)
             ELSE IF value.type \in {"NoneType", "bool", "int", "long", "str",
                                     "unicode", "datetime", "date"}
             THEN value
             ELSE Raise("TypeError")
    IN  IF depth > RecursionLimit THEN Raise("RuntimeError")
        ELSE IF IsException(d) THEN d
        ELSE IF d.type \in DOMAIN options.type_map
        THEN mapf(options.type_map[d.type], d)
        ELSE d

\* simplify with a fault: the encoder is looked up by the type of the value
simplify_TypeOfValue(value, kwargs, depth) ==
    LET defaults == [type_map |-> <<>>, url_map |-> PyNone, user |-> PyNone]
        options == [k \in DOMAIN kwargs \cup DOMAIN defaults |->
                       IF k \in DOMAIN kwargs THEN kwargs[k] ELSE defaults[k]]
        d == IF Contains(visitor, value.type)
             THEN VisitorCall(visitor, value, options, depth)
             ELSE IF hasattr_iter(value)
             THEN Apply(GetItem(visitor, "Iterable"), value, options, depth)
             ELSE value
    IN  IF depth > RecursionLimit THEN Raise("RuntimeError")
        ELSE IF IsException(d) THEN d
        ELSE IF value.type \in DOMAIN options.type_map
        THEN mapf(options.type_map[value.type], d)
        ELSE d

\* simplify with a fault: an iterable value goes to the handler of Iterable
\* before the table is asked for its type
simplify_IterableFirst(value, kwargs, depth) ==
    LET defaults == [type_map |-> <<>>, url_map |-> PyNone, user |-> PyNone]
        options == [k \in DOMAIN kwargs \cup DOMAIN defaults |->
                       IF k \in DOMAIN kwargs THEN kwargs[k] ELSE defaults[k]]
    IN  IF depth > RecursionLimit THEN Raise("RuntimeError")
        ELSE type_mapped(IF hasattr_iter(value)
                         THEN Apply(GetItem(visitor, "Iterable"), value,
                                    options, depth)
                         ELSE IF Contains(visitor, value.type)
                         THEN VisitorCall(visitor, value, options, depth)
                         ELSE value,
                         options.type_map)

\* simplify(value, identifier_map, type_map={}, url_map=None, user=None, **extra)
simplify(value, kwargs, depth) ==
    LET defaults == [type_map |-> <<>>, url_map |-> PyNone, user |-> PyNone]
        options == [k \in DOMAIN kwargs \cup DOMAIN defaults |->
                       IF k \in DOMAIN kwargs THEN kwargs[k] ELSE defaults[k]]
    IN  IF depth > RecursionLimit THEN Raise("RuntimeError")
        ELSE type_mapped(IF Contains(visitor, value.type)
                         THEN VisitorCall(visitor, value, options, depth)
                         ELSE IF hasattr_iter(value)
                         THEN Apply(GetItem(visitor, "Iterable"), value,
                                    options, depth)
                         ELSE value,
                         options.type_map)

(***************************************************************************)
(* langdev.web.serializers: the tree each serializer hands to its writer.  *)
(***************************************************************************)
json_type_map ==
    [t \in {"datetime", "date"} |->
        IF t = "datetime" THEN "datetime.isoformat" ELSE "date.isoformat"]

\* plist_type_map with a fault: no encoder for None, as in json()
plist_type_map_NullKept ==
    [t \in {"date"} |-> "date.isoformat"]

\* plist_type_map with a fault: the date-time encoder of json() is there too
plist_type_map_WithDateTime ==
    [t \in {"datetime", "date", "NoneType"} |->
        CASE t = "datetime" -> "datetime.isoformat"
          [] t = "date" -> "date.isoformat"
          [] OTHER -> "bool"]

plist_type_map ==
    [t \in {"date", "NoneType"} |->
        IF t = "date" THEN "date.isoformat" ELSE "bool"]

json_kwargs(current_user) ==
    [identifier_map |-> "camelCase", type_map |-> json_type_map,
     user |-> current_user]

plist_kwargs(current_user) ==
    [identifier_map |-> "PascalCase", type_map |-> plist_type_map,
     user |-> current_user]

\* json(value): the data passed to flask.json.dumps
json(value, current_user) == simplify(value, json_kwargs(current_user), 1)

\* plist(value): the data passed to plistlib.writePlistToString
plist(value, current_user) == simplify(value, plist_kwargs(current_user), 1)

(***************************************************************************)
(* langdev.web.render: content negotiation.  A quality value q is kept in  *)
(* tenths (q=0.9 is 9); an Accept header is the sequence of its            *)
(* <<mimetype, q>> entries; the Accept classes are those of the Werkzeug   *)
(* releases the application was written for (0.6 to 0.8).                  *)
(***************************************************************************)
\* content_types at start-up, as content_types.iteritems() yields it: a dict of CPython 2
\* iterates these six keys in the order of their hash slots (the same on
\* 32- and 64-bit builds), not in the order the display lists them
InitContentTypes ==
    << <<"text/xml", ".xml">>,
       <<"text/html", ".html">>,
       <<"application/xhtml+xml", ".html">>,
       <<"application/plist+xml", "langdev.web.serializers:plist">>,
       <<"application/json", "langdev.web.serializers:json">>,
       <<"application/x-plist", "langdev.web.serializers:plist">> >>

default_content_type == "text/html"

\* None as the content type: no key of content_types
NoContentType == "None"

\* content_types[content_type]
serializer_of(content_type) ==
    LET hits == {i \in 1..Len(content_types) : content_types[i][1] = content_type}
    IN  IF hits = {} THEN Raise("KeyError")
        ELSE PyStr(content_types[Min(hits)][2])

\* f.startswith('.')
startswith_dot(f) == f \in {".html", ".xml"}

\* types: the content types that can be produced for the template, whose
\* existing postfixes are templates (what _tpl_avail answers)
available_types(templates) ==
    LET keep(entry) == ~startswith_dot(entry[2]) \/ entry[2] \in templates
        kept == SelectSeq(content_types, keep)
    IN  [i \in 1..Len(kept) |-> kept[i][1]]

\* the position of a mimetype in the order of strings
MimeOrder ==
    <<"*/*", "application/json", "application/plist+xml", "application/xml",
      "text/*", "text/html", "text/xml">>

MimeRank(mime) == CHOOSE i \in 1..Len(MimeOrder) : MimeOrder[i] = mime

RECURSIVE MIMEAccept(_)
\* werkzeug.datastructures.Accept.__init__: the entries sorted by
\* (quality, value), the highest first
MIMEAccept(values) ==
    IF values = <<>> THEN <<>>
    ELSE LET before(a, b) ==
                 \/ a[2] > b[2]
                 \/ a[2] = b[2] /\ MimeRank(a[1]) >= MimeRank(b[1])
             top == Min({i \in 1..Len(values) :
                           \A j \in 1..Len(values) : before(values[i], values[j])})
         IN  <<values[top]>>
             \o MIMEAccept([i \in 1..(Len(values) - 1) |->
                              IF i < top THEN values[i] ELSE values[i + 1]])

\* MIMEAccept._value_matches for the entries render() lets through: a
\* content type by its exact name, or */*
value_matches(client_item, server_item) ==
    client_item = "*/*" \/ client_item = server_item

RECURSIVE best_match_inner(_, _, _, _)
\* the inner loop of Accept.best_match for one server_item, from entry i on
best_match_inner(accept, i, server_item, st) ==
    IF i > Len(accept) THEN st
    ELSE IF accept[i][2] <= st.best_quality THEN st
    ELSE IF value_matches(accept[i][1], server_item)
    THEN best_match_inner(accept, i + 1, server_item,
                          [best_quality |-> accept[i][2], result |-> server_item])
    ELSE best_match_inner(accept, i + 1, server_item, st)

RECURSIVE best_match_outer(_, _, _)
best_match_outer(accept, matches, st) ==
    IF matches = <<>> THEN st.result
    ELSE best_match_outer(accept, Tail(matches),
                          best_match_inner(accept, 1, Head(matches), st))

\* Accept.best_match(matches): None when nothing matches
best_match(accept, matches) ==
    best_match_outer(accept, matches,
                     [best_quality |-> -1, result |-> NoContentType])

\* negotiate with a fault: the first available type the header lets
\* through is taken, whatever the quality of its entry
negotiate_FirstAccepted(accept_header, templates) ==
    LET types == available_types(templates)
        hits == {i \in 1..Len(types) :
                   \E j \in 1..Len(accept_header) :
                       value_matches(accept_header[j][1], types[i])}
    IN  IF hits = {} THEN NoContentType ELSE types[Min(hits)]

\* negotiate with a fault: a lone */* is matched like any other entry
negotiate_NoDefault(accept_header, templates) ==
    LET types == available_types(templates)
        in_types(mime) == \E i \in 1..Len(types) : types[i] = mime
        keep(entry) == in_types(entry[1]) \/ entry[1] = "*/*"
    IN  best_match(MIMEAccept(SelectSeq(MIMEAccept(accept_header), keep)), types)

\* render(), the negotiation: the header's entries that name an available
\* type or */*, a lone */* replaced by the default content type, and the
\* best match among the available types (None when there is none)
negotiate(accept_header, templates) ==
    LET types == available_types(templates)
        in_types(mime) == \E i \in 1..Len(types) : types[i] = mime
        keep(entry) == in_types(entry[1]) \/ entry[1] = "*/*"
        m == MIMEAccept(SelectSeq(MIMEAccept(accept_header), keep))
        accept_mimetypes ==
            IF Len(m) = 1 /\ m[1][1] = "*/*"
            THEN MIMEAccept(<< <<default_content_type, 10>> >>)
            ELSE m
    IN  best_match(accept_mimetypes, types)

\* flask.abort(code)
abort(code) == [type |-> "HTTPException", code |-> code]

\* flask.Response(result, mimetype=content_type)
Response(body, content_type) ==
    [type |-> "Response", status |-> 200, mimetype |-> content_type,
     headers |-> <<>>, body |-> body]

\* response.headers[name] = value
SetHeader(response, name, value) ==
    [response EXCEPT !.headers =
        [h \in DOMAIN response.headers \cup {name} |->
            IF h = name THEN value ELSE response.headers[h]]]

\* serializer(value) for the serializer an import string names
serialize(import_string, value, current_user) ==
    IF import_string = "langdev.web.serializers:json"
    THEN [writer |-> "flask.json.dumps", data |-> json(value, current_user)]
    ELSE [writer |-> "plistlib.writePlistToString",
          data |-> plist(value, current_user)]

\* flask.render_template(template_name, **context)
render_template(template_name, context) ==
    [template |-> template_name, context |-> context]

\* the response render makes of what an encoder returned; an exception the
\* encoder raised propagates out of render
encoded(body, content_type) ==
    IF IsException(body.data) THEN body.data
    ELSE SetHeader(Response(body, content_type), "Vary", "Accept")

\* render with a fault: when nothing matches, the default content type's
\* template is rendered instead of the 406
render_FallsBack(template_name, value, context, ctx) ==
    LET content_type == negotiate(ctx.accept_mimetypes, ctx.templates)
        serializer == serializer_of(content_type)
    IN  IF serializer = Raise("KeyError")
        THEN SetHeader(Response(render_template(template_name \o ".html", context),
                                default_content_type), "Vary", "Accept")
        ELSE IF startswith_dot(serializer.str)
        THEN SetHeader(Response(render_template(template_name \o serializer.str,
                                                context), content_type),
                       "Vary", "Accept")
        ELSE encoded(serialize(serializer.str, value, ctx.current_user),
                     content_type)

\* render with a fault: Vary is set on the encoders' responses only
render_VaryForEncodersOnly(template_name, value, context, ctx) ==
    LET content_type == negotiate(ctx.accept_mimetypes, ctx.templates)
        serializer == serializer_of(content_type)
    IN  IF serializer = Raise("KeyError") THEN abort(406)
        ELSE IF startswith_dot(serializer.str)
        THEN Response(render_template(template_name \o serializer.str, context),
                      content_type)
        ELSE encoded(serialize(serializer.str, value, ctx.current_user),
                     content_type)

\* render(template_name, value, **context) in the request context ctx: the
\* Accept header, the templates that exist for template_name (as postfixes)
\* and g.current_user
render(template_name, value, context, ctx) ==
    LET content_type == negotiate(ctx.accept_mimetypes, ctx.templates)
        serializer == serializer_of(content_type)
    IN  IF serializer = Raise("KeyError") THEN abort(406)
        ELSE IF startswith_dot(serializer.str)
        THEN SetHeader(Response(render_template(template_name \o serializer.str,
                                                context), content_type),
                       "Vary", "Accept")
        ELSE encoded(serialize(serializer.str, value, ctx.current_user),
                     content_type)

(***************************************************************************)
(* langdev.web.user and langdev.web.thirdparty: the signed-in user, and    *)
(* the single sign-on API.                                                 *)
(***************************************************************************)
\* define_current_user(): g.current_user before every request
define_current_user ==
    IF "user_id" \notin DOMAIN session THEN PyNone
    ELSE IF session["user_id"] \in DOMAIN users
    THEN Ref("User", session["user_id"])
    ELSE PyNone

\* hashlib.md5(password).hexdigest() for the passwords that are typed
md5_hexdigest(password) ==
    CASE password = "password" -> "5f4dcc3b"
      [] password = "abc123" -> "e99a18c4"
      [] OTHER -> "d41d8cd9"

\* hmac.new(key, msg, hashlib.sha1).hexdigest(): a digest for each pair of
\* key and message, different pairs having different digests
hmac_sha1_hexdigest(key, msg) == [type |-> "str", hmac_sha1 |-> <<key, msg>>]

\* User.password
UserPassword(user) == PasswordObj(users[user.id].password_hash)

\* str(string) for what hmac() is given: Password.__str__ is the hash string
str_of(string) ==
    IF string.type = "Password" THEN string.hash_string ELSE string.str

\* hmac with a fault: keyed by the application's public key
hmac_KeyedByKey(app, string) ==
    hmac_sha1_hexdigest(applications[app.id].key.str, str_of(string))

\* Application.hmac(string)
hmac(app, string) ==
    hmac_sha1_hexdigest(applications[app.id].secret_key.str, str_of(string))

\* get_app(key)
get_app(key) ==
    LET found == {a \in DOMAIN applications : applications[a].key = PyStr(key)}
    IN  IF found = {} THEN abort(404) ELSE Ref("Application", Min(found))

\* get_user(login)
get_user(login) ==
    LET found == {u \in DOMAIN users : users[u].login = PyUnicode(login)}
    IN  IF found = {} THEN abort(404) ELSE Ref("User", Min(found))

\* the strings of the requests that User.LOGIN_PATTERN matches: those made
\* of lower-case letters only; the others hold an @
LOGIN_PATTERN_match(user_login) == user_login \in {"dahlia", "guest", "nobody"}

\* request.values.get(name)
ValuesGet(values, name) == IF name \in DOMAIN values THEN values[name] ELSE ""

\* sso(app_key, user_login) up to the call of render: 'abort' when the view
\* is left by an HTTP error, else success, the user found and what became
\* of g.current_user
sso_outcome(app_key, user_login, values, current_user) ==
    LET app == get_app(app_key)
        require_userinfo == ValuesGet(values, "with") = "userinfo"
        error_ignored == ValuesGet(values, "error") = "ignore"
        by_login == get_user(user_login)
        by_email == {u \in DOMAIN users : users[u].email = PyUnicode(user_login)}
        failed == [success |-> FALSE, value |-> PyBool(FALSE),
                   current_user |-> current_user]
        compare(user) ==
            IF "password" \notin DOMAIN values THEN [abort |-> abort(400)]
            ELSE LET success == hmac(app, UserPassword(user)) = values["password"]
                 IN  IF success /\ require_userinfo
                     THEN [success |-> TRUE, value |-> user, current_user |-> user]
                     ELSE [success |-> success, value |-> PyBool(success),
                           current_user |-> current_user]
    IN  IF app = abort(404) THEN [abort |-> app]
        ELSE IF LOGIN_PATTERN_match(user_login)
        THEN IF by_login = abort(404)
             THEN IF ~error_ignored THEN [abort |-> by_login] ELSE failed
             ELSE compare(by_login)
        ELSE IF by_email = {}
             THEN IF error_ignored THEN failed ELSE [abort |-> abort(404)]
             ELSE IF Cardinality(by_email) > 1 THEN failed
             ELSE compare(Ref("User", Min(by_email)))

(***************************************************************************)
(* The state after start-up: `transform` as the decorators of              *)
(* langdev.objsimplify leave it, and a forum of two users, one post and    *)
(* two third-party applications.                                           *)
(***************************************************************************)
TransformVisitor ==
    LET v0 == Visitor("transform")
        v1 == VisitorDecoratorCall(v0, "list", PyFunction("transform_list"))
        v2 == VisitorDecoratorCall(v1, "Iterable", VisitorObj(v1))
        v3 == VisitorDecoratorCall(v2, "User", PyFunction("transform_User"))
        v4 == VisitorDecoratorCall(v3, "Post", PyFunction("transform_Post"))
        v5 == VisitorDecoratorCall(v4, "Comment", PyFunction("transform_Comment"))
    IN  VisitorDecoratorCall(v5, "Application",
                             PyFunction("transform_Application"))

InitUsers ==
    << [login |-> PyUnicode("dahlia"), name |-> PyUnicode("Hong Minhee"),
        email |-> PyUnicode("dahlia@example.com"),
        url |-> PyUnicode("http://dahlia.kr/"),
        created_at |-> PyDateTime(<<2011, 5, 7>>, <<9, 30, 0>>),
        password_hash |-> "5f4dcc3b"],
       [login |-> PyUnicode("guest"), name |-> PyUnicode("Guest"),
        email |-> PyNone, url |-> PyNone,
        created_at |-> PyDateTime(<<2011, 11, 23>>, <<18, 5, 42>>),
        password_hash |-> "e99a18c4"] >>

InitPosts ==
    << [author |-> 1, title |-> PyUnicode("Hello"), body |-> PyUnicode("*Hi*"),
        sticky |-> PyBool(FALSE),
        created_at |-> PyDateTime(<<2011, 12, 1>>, <<0, 0, 0>>),
        modified_at |-> PyDateTime(<<2011, 12, 2>>, <<10, 20, 30>>)] >>

InitApplications ==
    << [key |-> PyStr("0cc175b9"), secret_key |-> PyStr("ca978112"),
        owner |-> 1, title |-> PyUnicode("App"),
        description |-> PyUnicode("An application"),
        url |-> PyUnicode("http://app.example.com/"),
        created_at |-> PyDateTime(<<2012, 1, 15>>, <<12, 0, 0>>)],
       [key |-> PyStr("92eb5ffe"), secret_key |-> PyStr("3e23e816"),
        owner |-> 2, title |-> PyUnicode("Other"),
        description |-> PyUnicode("Another application"),
        url |-> PyUnicode("http://other.example.com/"),
        created_at |-> PyDateTime(<<2012, 2, 20>>, <<8, 15, 0>>)] >>

Idle == [op |-> "none"]

\* flask.session without a 'user_id'
NoSession == <<>>

InitTables ==
    /\ users = InitUsers
    /\ posts = InitPosts
    /\ comments = <<>>
    /\ applications = InitApplications

Init ==
    /\ InitTables
    /\ visitor = TransformVisitor
    /\ content_types = InitContentTypes
    /\ now = 0
    /\ outbox = {}
    /\ stale = {}
    /\ session = NoSession
    /\ call = Idle
    /\ result = PyNone

(***************************************************************************)
(* The requests.                                                           *)
(***************************************************************************)
\* g.current_user: a signed-in user or None
Viewers == {PyNone} \cup {Ref("User", u) : u \in DOMAIN users}

EntityValues ==
    {Ref("User", u) : u \in DOMAIN users}
    \cup {Ref("Post", p) : p \in DOMAIN posts}
    \cup {Ref("Comment", c) : c \in DOMAIN comments}
    \cup {Ref("Application", a) : a \in DOMAIN applications}

\* what the views pass to render(), and what the handlers pass on
Values ==
    EntityValues
    \cup {PyList(Refs("User", SortedSeq(DOMAIN users))),
          AppenderQuery(Refs("Post", SortedSeq(DOMAIN posts))),
          PyList(<<PyList(Refs("Post", SortedSeq(DOMAIN posts)))>>),
          PyList(<<PyDate(<<2012, 2, 3>>), PyNone,
                   PasswordObj("5f4dcc3b")>>),
          PyNone, PyBool(TRUE),
          PyDateTime(<<2012, 2, 3>>, <<4, 5, 6>>), PyDate(<<2012, 2, 3>>),
          PasswordObj("5f4dcc3b")}

\* the identifier_map of a direct call (json passes camelCase, plist PascalCase)
IdentifierMaps == {"under_scores"}

\* a caller's type_map with encoders keyed by the types of values (User,
\* AppenderQuery), of results (datetime) and of an encoder's own output (str)
ProbeTypeMap ==
    [t \in {"datetime", "str", "AppenderQuery", "User"} |->
        CASE t = "datetime" -> "datetime.isoformat"
          [] t = "str" -> "len"
          [] OTHER -> "bool"]

\* the type_map of a direct call: left to its default, or given
TypeMaps == {<<>>, [type_map |-> ProbeTypeMap]}

\* the **extra of a direct call: under_list absent, False or True
Flags == {<<>>, [under_list |-> PyBool(FALSE)], [under_list |-> PyBool(TRUE)]}

Merge(f, g) ==
    [k \in DOMAIN f \cup DOMAIN g |-> IF k \in DOMAIN f THEN f[k] ELSE g[k]]

\* the keyword arguments of a direct call besides identifier_map and user:
\* under_list and type_map in every combination, or a url_map
Extras ==
    {Merge(f, t) : f \in Flags, t \in TypeMaps}
    \cup {[url_map |-> PyFunction("url_for")]}

\* Simplify with a fault: the keyword dictionary is shared with the handlers,
\* and the under_list a sequence handler sets stays in the caller's options
Simplify_SharedOptions(value, identifier_map, user, extra) ==
    LET kwargs == [k \in {"identifier_map", "user"} \cup DOMAIN extra |->
                      CASE k = "identifier_map" -> identifier_map
                        [] k = "user" -> user
                        [] OTHER -> extra[k]]
        tree == simplify(value, kwargs, 1)
        under == [under_list |-> PyBool(TRUE)]
    IN  /\ call = Idle
        /\ call' = [op |-> "simplify", value |-> value,
                    kwargs |-> IF hasattr_iter(value) \/ value.type = "Comment"
                               THEN [k \in DOMAIN kwargs \cup DOMAIN under |->
                                        IF k \in DOMAIN under THEN under[k]
                                        ELSE kwargs[k]]
                               ELSE kwargs]
        /\ result' = tree
        /\ UNCHANGED <<users, posts, comments, applications, visitor, session,
                   content_types>>
        /\ UNCHANGED <<now, outbox, stale>>

\* a direct call simplify(value, identifier_map, user=user, **extra)
Simplify(value, identifier_map, user, extra) ==
    LET kwargs == [k \in {"identifier_map", "user"} \cup DOMAIN extra |->
                      CASE k = "identifier_map" -> identifier_map
                        [] k = "user" -> user
                        [] OTHER -> extra[k]]
    IN  /\ call = Idle
        /\ call' = [op |-> "simplify", value |-> value, kwargs |-> kwargs]
        /\ result' = simplify(value, kwargs, 1)
        /\ UNCHANGED <<users, posts, comments, applications, visitor, session,
                   content_types>>
        /\ UNCHANGED <<now, outbox, stale>>

\* the same call once more, with the value and the options of the first and
\* the first result kept by the caller
SimplifyAgain ==
    /\ call.op = "simplify"
    /\ "first" \notin DOMAIN call
    /\ call' = [op |-> "simplify", value |-> call.value,
                kwargs |-> call.kwargs, first |-> result]
    /\ result' = simplify(call.value, call.kwargs, 1)
    /\ UNCHANGED <<users, posts, comments, applications, visitor, session,
                   content_types>>
    /\ UNCHANGED <<now, outbox, stale>>

\* langdev.web.serializers.json(value) with g.current_user = current_user
Json(value, current_user) ==
    /\ call = Idle
    /\ call' = [op |-> "json", value |-> value,
                kwargs |-> json_kwargs(current_user)]
    /\ result' = json(value, current_user)
    /\ UNCHANGED <<users, posts, comments, applications, visitor, session,
                   content_types>>
    /\ UNCHANGED <<now, outbox, stale>>

\* langdev.web.serializers.plist(value) with g.current_user = current_user
Plist(value, current_user) ==
    /\ call = Idle
    /\ call' = [op |-> "plist", value |-> value,
                kwargs |-> plist_kwargs(current_user)]
    /\ result' = plist(value, current_user)
    /\ UNCHANGED <<users, posts, comments, applications, visitor, session,
                   content_types>>
    /\ UNCHANGED <<now, outbox, stale>>

\* langdev.web.forum.write_comment by a signed-in user, answered by a redirect
WriteComment(post_id, comment_id, current_user) ==
    /\ call = Idle
    /\ Len(comments) < MaxComments
    /\ post_id \in DOMAIN posts
    /\ comment_id # NULL =>
          comment_id \in DOMAIN comments /\ comments[comment_id].post = post_id
    /\ current_user # PyNone
    /\ comments' = Append(comments,
          [post |-> post_id, parent |-> comment_id, author |-> current_user.id,
           body |-> PyUnicode("comment"),
           created_at |-> PyDateTime(<<2012, 3, Len(comments) + 1>>,
                                     <<7, 8, 9>>)])
    /\ call' = [op |-> "write_comment"]
    /\ result' = PyNone
    /\ UNCHANGED <<users, posts, applications, visitor, session,
                   content_types>>
    /\ UNCHANGED <<now, outbox, stale>>

\* the response has been sent: the request is over
Return ==
    /\ call # Idle
    /\ "pc" \in DOMAIN call => call.pc = "done"
    /\ call' = Idle
    /\ result' = PyNone
    /\ UNCHANGED <<users, posts, comments, applications, visitor, session,
                   content_types>>
    /\ UNCHANGED <<now, outbox, stale>>

Next ==
    \/ \E value \in Values, identifier_map \in IdentifierMaps,
          user \in Viewers, extra \in Extras :
          Simplify(value, identifier_map, user, extra)
    \/ SimplifyAgain
    \/ \E value \in Values, current_user \in Viewers : Json(value, current_user)
    \/ \E value \in Values, current_user \in Viewers : Plist(value, current_user)
    \/ \E post_id \in DOMAIN posts, comment_id \in {NULL} \cup DOMAIN comments,
          current_user \in Viewers :
          WriteComment(post_id, comment_id, current_user)
    \/ Return

Spec == Init /\ [][Next]_vars

(***************************************************************************)
(* The visitor on its own: a `compile` visitor as in the module doctest,   *)
(* registered step by step and then looked up and called.                  *)
(***************************************************************************)
VisitTypes == {"int", "basestring", "unicode", "list", "object"}

VisitFunctions ==
    {PyFunction("compile_int"), PyFunction("compile_basestring"),
     PyFunction("compile_list")}

LookupTypes == {"int", "bool", "unicode", "str", "list", "NoneType"}

DispatchValues ==
    {PyInt(1), PyBool(TRUE), PyUnicode("4"), PyStr("3"), PyList(<<>>), PyNone}

InitVisitor ==
    /\ InitTables
    /\ visitor = Visitor("compile")
    /\ content_types = InitContentTypes
    /\ now = 0
    /\ outbox = {}
    /\ stale = {}
    /\ session = NoSession
    /\ call = Idle
    /\ result = PyNone

\* @compile.visit(type) applied to a function, or to the visitor that an
\* inner decorator returned
Visit(type, function) ==
    /\ call = Idle
    /\ type \in DOMAIN visitor.functions
          \/ Cardinality(DOMAIN visitor.functions) < MaxVisits
    /\ visitor' = VisitorDecoratorCall(visitor, type, function)
    /\ UNCHANGED <<users, posts, comments, applications, session, call, result,
                   content_types>>
    /\ UNCHANGED <<now, outbox, stale>>

\* Lookup with a fault: the function found along the mro is stored under the
\* type that was asked for
Lookup_Memoizes(type) ==
    /\ call = Idle
    /\ call' = [op |-> "getitem", type |-> type]
    /\ result' = GetItem(visitor, type)
    /\ visitor' = IF IsException(GetItem(visitor, type)) THEN visitor
                  ELSE SetItem(visitor, type, GetItem(visitor, type))
    /\ UNCHANGED <<users, posts, comments, applications, session,
                   content_types>>
    /\ UNCHANGED <<now, outbox, stale>>

\* compile[type]
Lookup(type) ==
    /\ call = Idle
    /\ call' = [op |-> "getitem", type |-> type]
    /\ result' = GetItem(visitor, type)
    /\ UNCHANGED <<users, posts, comments, applications, visitor, session,
                   content_types>>
    /\ UNCHANGED <<now, outbox, stale>>

\* type in compile
Membership(type) ==
    /\ call = Idle
    /\ call' = [op |-> "contains", type |-> type]
    /\ result' = PyBool(Contains(visitor, type))
    /\ UNCHANGED <<users, posts, comments, applications, visitor, session,
                   content_types>>
    /\ UNCHANGED <<now, outbox, stale>>

\* compile(value)
Dispatch(value) ==
    /\ call = Idle
    /\ call' = [op |-> "call", value |-> value]
    /\ result' = VisitorCall(visitor, value, <<>>, 1)
    /\ UNCHANGED <<users, posts, comments, applications, visitor, session,
                   content_types>>
    /\ UNCHANGED <<now, outbox, stale>>

NextVisitor ==
    \/ \E type \in VisitTypes,
          function \in VisitFunctions \cup {VisitorObj(visitor)} :
          Visit(type, function)
    \/ \E type \in LookupTypes : Lookup(type)
    \/ \E type \in LookupTypes : Membership(type)
    \/ \E value \in DispatchValues : Dispatch(value)
    \/ Return

SpecVisitor == InitVisitor /\ [][NextVisitor]_vars

(***************************************************************************)
(* render() on its own: a view renders a user for a request with some      *)
(* Accept header, the template existing with some of the postfixes.        *)
(***************************************************************************)
\* the media ranges of the headers: the wildcard, a partial wildcard, four
\* of the content types and a type that is not among them
Mimes ==
    {"*/*", "text/*", "text/html", "text/xml", "application/json",
     "application/plist+xml", "application/xml"}

\* the quality values a header gives a media range: no q (1) for each,
\* q=0.9 for the wildcard and the content types, q=0 for the wildcard and
\* for a template's and an encoder's type
Qualities(mime) ==
    {10} \cup (IF mime \in {"text/*", "application/xml"} THEN {} ELSE {9})
         \cup (IF mime \in {"*/*", "text/html", "application/json"}
               THEN {0} ELSE {})

\* the entries of the headers
AcceptEntries ==
    UNION {{<<mime, q>> : q \in Qualities(mime)} : mime \in Mimes}

AcceptHeaders ==
    UNION {[1..n -> AcceptEntries] : n \in 0..MaxAccept}

\* the postfixes template_name exists with
TemplateSets == SUBSET {".html", ".xml"}

\* a view calling render('user/profile', user, user=user)
Render(value, accept_mimetypes, templates, current_user) ==
    LET ctx == [accept_mimetypes |-> accept_mimetypes, templates |-> templates,
                current_user |-> current_user]
    IN  /\ call = Idle
        /\ call' = [op |-> "render", value |-> value, ctx |-> ctx,
                    kwargs |-> <<>>]
        /\ result' = render("user/profile", value, [user |-> value], ctx)
        /\ UNCHANGED <<users, posts, comments, applications, visitor, session,
                   content_types>>
        /\ UNCHANGED <<now, outbox, stale>>

NextRender ==
    \/ \E accept_mimetypes \in AcceptHeaders, templates \in TemplateSets :
          Render(Ref("User", 1), accept_mimetypes, templates, PyNone)
    \/ Return

SpecRender == Init /\ [][NextRender]_vars

(***************************************************************************)
(* The site as its clients use it: one browser session signing in and out, *)
(* viewing and editing profiles, and third parties calling the single      *)
(* sign-on API.                                                            *)
(***************************************************************************)
\* flask.redirect(location)
redirect(location) ==
    [type |-> "Response", status |-> 302, headers |-> [Location |-> location]]

\* the keys of the applications, and one that is no application's
AppKeys == {"0cc175b9", "92eb5ffe", "ffffffff"}

\* login names and email addresses, of users and of nobody
UserLogins ==
    {"dahlia", "guest", "nobody", "dahlia@example.com", "guest@example.com",
     "nobody@example.com"}

\* what a third party may send as password: the digests made with a secret
\* key or with the public key of an application over the password hash of
\* a user, and a password hash itself
SubmittedPasswords ==
    {hmac_sha1_hexdigest(k, h) :
        k \in {InitApplications[a].secret_key.str : a \in DOMAIN InitApplications}
              \cup {InitApplications[1].key.str},
        h \in {InitUsers[u].password_hash : u \in DOMAIN InitUsers}}
    \cup {PyStr(InitUsers[1].password_hash)}

\* request.values of an SSO request: with, error and password, each
\* present or not
SsoValues ==
    {Merge(Merge(w, e), p) :
        w \in {<<>>, [with |-> "userinfo"]},
        e \in {<<>>, [error |-> "ignore"]},
        p \in {<<>>} \cup {[password |-> d] : d \in SubmittedPasswords}}

\* the Accept headers of the clients: an encoder's type, or anything
ClientAccepts ==
    {<< <<"application/json", 10>> >>, << <<"application/plist+xml", 10>> >>,
     << <<"*/*", 10>> >>}

\* the context of a request for render(): templates exist as .html
Context(accept_mimetypes, current_user) ==
    [accept_mimetypes |-> accept_mimetypes, templates |-> {".html"},
     current_user |-> current_user]

\* Sso with a fault: the user is signed in by set_current_user(user), which
\* writes the session
Sso_SignsIn(app_key, user_login, values, accept_mimetypes) ==
    LET current_user == define_current_user
        outcome == sso_outcome(app_key, user_login, values, current_user)
    IN  /\ call = Idle
        /\ call' = [op |-> "sso", app_key |-> app_key, user_login |-> user_login,
                    values |-> values, viewer |-> current_user, kwargs |-> <<>>]
        /\ result' = IF "abort" \in DOMAIN outcome THEN outcome.abort
                     ELSE render("thirdparty/sso", outcome.value,
                                 [success |-> outcome.success],
                                 Context(accept_mimetypes, outcome.current_user))
        /\ session' = IF "abort" \notin DOMAIN outcome
                         /\ outcome.value.type = "User"
                      THEN [user_id |-> outcome.value.id]
                      ELSE session
        /\ UNCHANGED <<users, posts, comments, applications, visitor,
                   content_types>>
        /\ UNCHANGED <<now, outbox, stale>>

\* sso(app_key, user_login): GET or POST /<app_key>/sso/<user_login>
Sso(app_key, user_login, values, accept_mimetypes) ==
    LET current_user == define_current_user
        outcome == sso_outcome(app_key, user_login, values, current_user)
    IN  /\ call = Idle
        /\ call' = [op |-> "sso", app_key |-> app_key, user_login |-> user_login,
                    values |-> values, viewer |-> current_user, kwargs |-> <<>>]
        /\ result' = IF "abort" \in DOMAIN outcome THEN outcome.abort
                     ELSE render("thirdparty/sso", outcome.value,
                                 [success |-> outcome.success],
                                 Context(accept_mimetypes, outcome.current_user))
        /\ UNCHANGED <<users, posts, comments, applications, visitor, session,
                   content_types>>
        /\ UNCHANGED <<now, outbox, stale>>

\* profile(user_login): called for GET /<user_login>, and by edit as its
\* last step for the user and the request it was called for
Profile(user_login, accept_mimetypes) ==
    LET current_user == define_current_user
        user == get_user(user_login)
    IN  /\ \/ call = Idle
           \/ /\ call.op = "edit"
              /\ "pc" \in DOMAIN call
              /\ call.pc = "profile"
              /\ call.user_login = user_login
              /\ call.accept_mimetypes = accept_mimetypes
        /\ call' = IF call = Idle
                   THEN [op |-> "profile", user_login |-> user_login,
                         viewer |-> current_user, kwargs |-> <<>>]
                   ELSE [call EXCEPT !.pc = "done"]
        /\ result' = IF user = abort(404) THEN user
                     ELSE render("user/profile", user,
                                 [user |-> user, form |-> current_user = user],
                                 Context(accept_mimetypes, current_user))
        /\ UNCHANGED <<users, posts, comments, applications, visitor, session,
                   content_types>>
        /\ UNCHANGED <<now, outbox, stale>>

\* edit(user_login): PUT /<user_login> with a valid form that changes the
\* email and repeats the other fields; the change is committed, and the
\* view goes on to call profile(user_login)
Edit(user_login, email, accept_mimetypes) ==
    LET current_user == define_current_user
        user == get_user(user_login)
        forbidden == ~Truthy(current_user) \/ current_user.id # user.id
    IN  /\ call = Idle
        /\ IF user = abort(404)
           THEN /\ call' = [op |-> "edit", target |-> user,
                            viewer |-> current_user, kwargs |-> <<>>]
                /\ result' = user
                /\ users' = users
           ELSE IF forbidden
           THEN /\ call' = [op |-> "edit", target |-> user,
                            viewer |-> current_user, kwargs |-> <<>>]
                /\ result' = abort(403)
                /\ users' = users
           ELSE /\ call' = [op |-> "edit", pc |-> "profile", target |-> user,
                            user_login |-> user_login,
                            accept_mimetypes |-> accept_mimetypes,
                            viewer |-> current_user, kwargs |-> <<>>]
                /\ result' = PyNone
                /\ users' = [users EXCEPT ![user.id].email = PyUnicode(email)]
        /\ UNCHANGED <<posts, comments, applications, visitor, session,
                   content_types>>
        /\ UNCHANGED <<now, outbox, stale>>

\* signin(): POST /f/signin with a form that validates: the login exists
\* and the password is the user's
SignIn(login, password) ==
    LET user == get_user(login)
    IN  /\ call = Idle
        /\ user # abort(404)
        /\ md5_hexdigest(password) = users[user.id].password_hash
        /\ session' = [k \in DOMAIN session \cup {"user_id"} |->
                          IF k = "user_id" THEN user.id ELSE session[k]]
        /\ call' = [op |-> "signin", login |-> login, kwargs |-> <<>>]
        /\ result' = redirect("user.profile")
        /\ UNCHANGED <<users, posts, comments, applications, visitor,
                   content_types>>
        /\ UNCHANGED <<now, outbox, stale>>

\* signout(): GET /f/signout; del session['user_id'] fails when nobody is
\* signed in
SignOut ==
    /\ call = Idle
    /\ call' = [op |-> "signout", kwargs |-> <<>>]
    /\ IF "user_id" \in DOMAIN session
       THEN /\ session' = [k \in DOMAIN session \ {"user_id"} |-> session[k]]
            /\ result' = redirect("home.main")
       ELSE /\ session' = session
            /\ result' = Raise("KeyError")
    /\ UNCHANGED <<users, posts, comments, applications, visitor,
                   content_types>>
    /\ UNCHANGED <<now, outbox, stale>>

NextSso ==
    \/ \E app_key \in AppKeys, user_login \in UserLogins, values \in SsoValues,
          accept_mimetypes \in ClientAccepts :
          Sso(app_key, user_login, values, accept_mimetypes)
    \/ \E user_login \in UserLogins, accept_mimetypes \in ClientAccepts :
          Profile(user_login, accept_mimetypes)
    \/ \E user_login \in UserLogins,
          email \in {"dahlia@example.com", "guest@example.com"} :
          Edit(user_login, email, << <<"application/json", 10>> >>)
    \/ \E login \in UserLogins, password \in {"password", "abc123"} :
          SignIn(login, password)
    \/ SignOut
    \/ Return

SpecSso == Init /\ [][NextSso]_vars

(***************************************************************************)
(* The identifier functions on their own.                                  *)
(***************************************************************************)
\* the characters of the labels: a lower-case letter, an upper-case letter
\* and the blank
LabelChars == {"a", "B", " "}

\* the labels of one or more words, blanks before, between and after them
IdentifierLabels ==
    {label \in UNION {[1..n -> LabelChars] : n \in 1..MaxLabel} :
        str_split(label) # <<>>}

\* identifier_map(label) for each of the three identifier functions
IdentifierMap(label) ==
    /\ call = Idle
    /\ call' = [op |-> "identifier_map", label |-> label, kwargs |-> <<>>]
    /\ result' = [type |-> "identifiers",
                  under_scores |-> under_scores(label),
                  PascalCase |-> PascalCase(label),
                  camelCase |-> camelCase(label)]
    /\ UNCHANGED <<users, posts, comments, applications, visitor, session,
                   content_types>>
    /\ UNCHANGED <<now, outbox, stale>>

NextIdentifier ==
    \/ \E label \in IdentifierLabels : IdentifierMap(label)
    \/ Return

SpecIdentifier == Init /\ [][NextIdentifier]_vars

(***************************************************************************)
(* langdev.web.pager: a Pager is its length, selected_page and width; what *)
(* iterating it yields is the sequence of its <<flag, page>> pairs.        *)
(***************************************************************************)
FIRST == PyStr("first")
LAST == PyStr("last")
SELECTED == PyStr("selected")

\* Pager.__iter__, the pairs in the order they are yielded
Pager_iter(length, selected_page, width) ==
    LET half == width \div 2
        first == length > width /\ selected_page > half + 2
        i == IF first
             THEN IF selected_page + half >= length
                  THEN length - width + 1
                  ELSE selected_page - half
             ELSE 1
        to == IF i + width <= 1 + length THEN i + width ELSE 1 + length
        pages == [k \in 1..(to - i) |->
                    <<IF i + k - 1 = selected_page THEN SELECTED
                      ELSE PyInt(i + k - 1),
                      i + k - 1>>]
        last == (IF selected_page >= to THEN selected_page ELSE to) <= length
    IN  (IF first THEN << <<FIRST, 1>> >> ELSE <<>>)
        \o pages
        \o (IF last THEN << <<LAST, length>> >> ELSE <<>>)

\* list(Pager(length, selected_page, width))
Iterate(length, selected_page, width) ==
    /\ call = Idle
    /\ call' = [op |-> "pager", length |-> length,
                selected_page |-> selected_page, width |-> width,
                kwargs |-> <<>>]
    /\ result' = PyList(Pager_iter(length, selected_page, width))
    /\ UNCHANGED <<users, posts, comments, applications, visitor, session,
                   content_types>>
    /\ UNCHANGED <<now, outbox, stale>>

NextPager ==
    \/ \E length \in 1..MaxLength, width \in 1..MaxWidth :
          \E selected_page \in 1..length :
              Iterate(length, selected_page, width)
    \/ Return

SpecPager == Init /\ [][NextPager]_vars

(***************************************************************************)
(* langdev.web.wsgi: MethodRewriteMiddleware.  A query string is the       *)
(* sequence of its <<key, value>> arguments as they are written, percent   *)
(* escapes included.                                                       *)
(***************************************************************************)
\* str.upper() of the methods that occur
upper(s) ==
    CASE s = "post" -> "POST"
      [] s = "put" -> "PUT"
      [] s = "delete" -> "DELETE"
      [] s = "patch" -> "PATCH"
      [] OTHER -> s

\* '__method__' in query_string: the characters are in it as they are
\* written, in a key or in a value
contains_method(query_string) ==
    \E k \in 1..Len(query_string) :
        query_string[k][1] = "__method__" \/ query_string[k][2] = "__method__"

\* urllib unquoting of a key
url_unquote(s) == IF s = "%5F%5Fmethod%5F%5F" THEN "__method__" ELSE s

\* werkzeug.urls.url_decode(query_string): the arguments with their keys
\* and values unquoted
url_decode(query_string) ==
    [k \in 1..Len(query_string) |->
        <<url_unquote(query_string[k][1]), url_unquote(query_string[k][2])>>]

\* MultiDict.get(key, default): the first value of the key
args_get(args, key, default) ==
    LET found == {k \in 1..Len(args) : args[k][1] = key}
    IN  IF found = {} THEN default ELSE args[Min(found)][2]

\* environ.get('QUERY_STRING', '')
environ_query_string(environ) ==
    IF "QUERY_STRING" \in DOMAIN environ THEN environ.QUERY_STRING ELSE <<>>

\* the middleware with a fault: the method of the request is not looked at
MethodRewriteMiddleware_AnyMethod(environ) ==
    IF contains_method(environ_query_string(environ))
    THEN LET method ==
                 upper(args_get(url_decode(environ.QUERY_STRING), "__method__", ""))
         IN  IF method \in {"HEAD", "GET", "POST", "PUT", "DELETE"}
             THEN [environ EXCEPT !.REQUEST_METHOD = method]
             ELSE environ
    ELSE environ

\* MethodRewriteMiddleware.__call__: the environ the wrapped application is
\* called with
MethodRewriteMiddleware(environ) ==
    IF /\ upper(environ.REQUEST_METHOD) = "POST"
       /\ contains_method(environ_query_string(environ))
    THEN LET method ==
                 upper(args_get(url_decode(environ.QUERY_STRING), "__method__", ""))
         IN  IF method \in {"HEAD", "GET", "POST", "PUT", "DELETE"}
             THEN [environ EXCEPT !.REQUEST_METHOD = method]
             ELSE environ
    ELSE environ

\* the methods of the requests
RequestMethods == {"GET", "POST", "post", "PUT", "DELETE"}

\* the arguments of the query strings
QueryArgs ==
    {"__method__", "%5F%5Fmethod%5F%5F", "page"}
        \X {"PUT", "delete", "PATCH", "__method__"}

\* the environs of the requests: with a query string or without
Environs ==
    {[REQUEST_METHOD |-> m] : m \in RequestMethods}
    \cup {[REQUEST_METHOD |-> m, QUERY_STRING |-> q] :
            m \in RequestMethods,
            q \in UNION {[1..n -> QueryArgs] : n \in 0..MaxArgs}}

\* a request passes the middleware
Wsgi(environ) ==
    /\ call = Idle
    /\ call' = [op |-> "wsgi", environ |-> environ, kwargs |-> <<>>]
    /\ result' = [type |-> "environ", environ |-> MethodRewriteMiddleware(environ)]
    /\ UNCHANGED <<users, posts, comments, applications, visitor, session,
                   content_types>>
    /\ UNCHANGED <<now, outbox, stale>>

NextWsgi ==
    \/ \E environ \in Environs : Wsgi(environ)
    \/ Return

SpecWsgi == Init /\ [][NextWsgi]_vars

(***************************************************************************)
(* The registries while requests are served: handlers are registered on    *)
(* `transform`, and it is looked up, called, and used by simplify and      *)
(* render in between.                                                      *)
(***************************************************************************)
RegisterTypes == {"list", "Password", "int"}

\* handlers that take any value
RegisterFunctions == {PyFunction("compile_int"), PyFunction("compile_list")}

\* a list, a query (iterable, and of no registered class at start-up), and
\* values without __iter__
RegistryValues ==
    {PyList(<<PyInt(1)>>), AppenderQuery(<<PyInt(2)>>), PasswordObj("5f4dcc3b"),
     PyInt(1), PyBool(TRUE), PyUnicode("4")}

RegistryAccepts ==
    {<< <<"application/json", 10>> >>, << <<"text/html", 10>> >>,
     << <<"text/xml", 10>> >>}

\* @transform.visit(type) applied to a function
Register(type, function) ==
    /\ call = Idle
    /\ visitor' = VisitorDecoratorCall(visitor, type, function)
    /\ UNCHANGED <<users, posts, comments, applications, session, call, result,
                   content_types>>
    /\ UNCHANGED <<now, outbox, stale>>

NextRegistries ==
    \/ \E type \in RegisterTypes, function \in RegisterFunctions :
          Register(type, function)
    \/ \E type \in LookupTypes : Lookup(type)
    \/ \E type \in LookupTypes : Membership(type)
    \/ \E value \in RegistryValues : Dispatch(value)
    \/ \E value \in RegistryValues :
          Simplify(value, "under_scores", PyNone, <<>>)
    \/ \E accept_mimetypes \in RegistryAccepts :
          Render(Ref("User", 1), accept_mimetypes, {".html"}, PyNone)
    \/ Return

SpecRegistries == Init /\ [][NextRegistries]_vars

(***************************************************************************)
(* What belongs to a user: posts, comments, applications and the account   *)
(* itself, edited and deleted through langdev.web.forum, langdev.web.user  *)
(* and langdev.web.thirdparty by one browser session.                      *)
(***************************************************************************)
\* ensure_signin with a fault: being signed in is enough
ensure_signin_AnyUser(current_user, user) ==
    IF ~Truthy(current_user) THEN abort(403) ELSE current_user

\* ensure_signin(user)
ensure_signin(current_user, user) ==
    IF ~Truthy(current_user)
          \/ (Truthy(user) /\ current_user.id # user.id)
    THEN abort(403)
    ELSE current_user

\* get_post(post_id)
get_post(post_id) ==
    IF post_id \in DOMAIN posts THEN Ref("Post", post_id) ELSE abort(404)

\* get_comment(comment_id, post_id)
get_comment(comment_id, post_id) ==
    IF /\ comment_id \in DOMAIN comments
       /\ post_id # 0 => comments[comment_id].post = post_id
    THEN Ref("Comment", comment_id)
    ELSE abort(404)

\* Post.author, Comment.author, Application.owner
PostAuthor(post) == Ref("User", posts[post.id].author)
CommentAuthor(comment) == Ref("User", comments[comment.id].author)
AppOwner(app) == Ref("User", applications[app.id].owner)

\* g.session.delete(row) of a row of table, committed
delete_row(table, id) == [i \in DOMAIN table \ {id} |-> table[i]]

\* the rows whose NOT NULL foreign key refers to the user: no relationship
\* cascades, so the flush that deletes the user sets these keys to NULL and
\* fails
UserDependents(id) ==
    UserPosts(id) \cup UserComments(id)
        \cup {a \in DOMAIN applications : applications[a].owner = id}

\* one post of dahlia's with a comment of guest's, which dahlia replied to,
\* and an application each
InitOwner ==
    /\ users = InitUsers
    /\ posts = InitPosts
    /\ comments = << [post |-> 1, parent |-> NULL, author |-> 2,
                      body |-> PyUnicode("comment"),
                      created_at |-> PyDateTime(<<2012, 3, 1>>, <<7, 8, 9>>)],
                     [post |-> 1, parent |-> 1, author |-> 1,
                      body |-> PyUnicode("reply"),
                      created_at |-> PyDateTime(<<2012, 3, 2>>, <<7, 8, 9>>)] >>
    /\ applications = InitApplications
    /\ visitor = TransformVisitor
    /\ content_types = InitContentTypes
    /\ now = 0
    /\ outbox = {}
    /\ stale = {}
    /\ session = NoSession
    /\ call = Idle
    /\ result = PyNone

\* the answer of a view that ensure_signin or a get_ function left by abort
Aborted(op, response, target) ==
    /\ call' = [op |-> op, target |-> target, viewer |-> define_current_user,
                kwargs |-> <<>>]
    /\ result' = response
    /\ UNCHANGED <<users, posts, comments, applications, session>>

\* forum.post(post_id): called for GET /<post_id>, and by forum.edit as its
\* last step
PostView(post_id, accept_mimetypes) ==
    LET current_user == define_current_user
        post == get_post(post_id)
    IN  /\ \/ call = Idle
           \/ /\ call.op = "forum.edit"
              /\ "pc" \in DOMAIN call
              /\ call.pc = "post"
              /\ call.target = Ref("Post", post_id)
              /\ call.accept_mimetypes = accept_mimetypes
        /\ call' = IF call = Idle
                   THEN [op |-> "forum.post", viewer |-> current_user,
                         kwargs |-> <<>>]
                   ELSE [call EXCEPT !.pc = "done"]
        /\ result' = IF post = abort(404) THEN post
                     ELSE render("forum/post", post, [post |-> post],
                                 Context(accept_mimetypes, current_user))
        /\ UNCHANGED <<users, posts, comments, applications, visitor, session,
                       content_types>>
        /\ UNCHANGED <<now, outbox, stale>>

\* forum.edit(post_id): PUT /<post_id> with a valid form that changes the
\* title; the change is committed, and the view goes on to call post()
EditPost(post_id, title, accept_mimetypes) ==
    LET current_user == define_current_user
        post == get_post(post_id)
    IN  /\ call = Idle
        /\ IF post = abort(404) THEN Aborted("forum.edit", post, post)
           ELSE IF ensure_signin(current_user, PostAuthor(post)) = abort(403)
           THEN Aborted("forum.edit", abort(403), post)
           ELSE /\ call' = [op |-> "forum.edit", pc |-> "post", target |-> post,
                            accept_mimetypes |-> accept_mimetypes,
                            viewer |-> current_user, kwargs |-> <<>>]
                /\ result' = PyNone
                /\ posts' = [posts EXCEPT ![post.id].title = PyUnicode(title)]
                /\ UNCHANGED <<users, comments, applications, session>>
        /\ UNCHANGED <<visitor, content_types>>
        /\ UNCHANGED <<now, outbox, stale>>

\* forum.delete(post_id): DELETE /<post_id>; the flush sets post_id of the
\* post's comments to NULL, which the column does not take
DeletePost(post_id) ==
    LET current_user == define_current_user
        post == get_post(post_id)
    IN  /\ call = Idle
        /\ IF post = abort(404) THEN Aborted("forum.delete", post, post)
           ELSE IF ensure_signin(current_user, PostAuthor(post)) = abort(403)
           THEN Aborted("forum.delete", abort(403), post)
           ELSE IF PostComments(post.id) # {}
           THEN Aborted("forum.delete", Raise("IntegrityError"), post)
           ELSE /\ call' = [op |-> "forum.delete", target |-> post,
                            viewer |-> current_user, kwargs |-> <<>>]
                /\ result' = redirect("forum.posts")
                /\ posts' = delete_row(posts, post.id)
                /\ UNCHANGED <<users, comments, applications, session>>
        /\ UNCHANGED <<visitor, content_types>>
        /\ UNCHANGED <<now, outbox, stale>>

\* forum.delete_comment(post_id, comment_id): DELETE /<post_id>/<comment_id>;
\* the replies of the comment stay, with no parent
DeleteComment(post_id, comment_id) ==
    LET current_user == define_current_user
        comment == get_comment(comment_id, post_id)
    IN  /\ call = Idle
        /\ IF comment = abort(404)
           THEN Aborted("forum.delete_comment", comment, comment)
           ELSE IF ensure_signin(current_user, CommentAuthor(comment))
                      = abort(403)
           THEN Aborted("forum.delete_comment", abort(403), comment)
           ELSE /\ call' = [op |-> "forum.delete_comment", target |-> comment,
                            viewer |-> current_user, kwargs |-> <<>>]
                /\ result' = redirect("forum.post")
                /\ comments' =
                      [c \in DOMAIN comments \ {comment.id} |->
                          IF comments[c].parent = comment.id
                          THEN [comments[c] EXCEPT !.parent = NULL]
                          ELSE comments[c]]
                /\ UNCHANGED <<users, posts, applications, session>>
        /\ UNCHANGED <<visitor, content_types>>
        /\ UNCHANGED <<now, outbox, stale>>

\* thirdparty.delete_app(app_key): DELETE /<app_key>
DeleteApp(app_key) ==
    LET current_user == define_current_user
        app == get_app(app_key)
    IN  /\ call = Idle
        /\ IF app = abort(404)
           THEN Aborted("thirdparty.delete_app", app, app)
           ELSE IF ensure_signin(current_user, AppOwner(app)) = abort(403)
           THEN Aborted("thirdparty.delete_app", abort(403), app)
           ELSE /\ call' = [op |-> "thirdparty.delete_app", target |-> app,
                            viewer |-> current_user, kwargs |-> <<>>]
                /\ result' = redirect("thirdparty.register")
                /\ applications' = delete_row(applications, app.id)
                /\ UNCHANGED <<users, posts, comments, session>>
        /\ UNCHANGED <<visitor, content_types>>
        /\ UNCHANGED <<now, outbox, stale>>

\* user.leave(user_login): DELETE /<user_login>; the user is deleted and
\* signed out
Leave(user_login, return_url) ==
    LET current_user == define_current_user
        user == get_user(user_login)
    IN  /\ call = Idle
        /\ IF user = abort(404) THEN Aborted("user.leave", user, user)
           ELSE IF ensure_signin(current_user, user) = abort(403)
           THEN Aborted("user.leave", abort(403), user)
           ELSE IF UserDependents(user.id) # {}
           THEN Aborted("user.leave", Raise("IntegrityError"), user)
           ELSE /\ call' = [op |-> "user.leave", target |-> user,
                            viewer |-> current_user, kwargs |-> <<>>]
                /\ result' = IF return_url # "" THEN redirect(return_url)
                             ELSE PyStr("")
                /\ users' = delete_row(users, user.id)
                /\ session' = [k \in DOMAIN session \ {"user_id"} |->
                                  session[k]]
                /\ UNCHANGED <<posts, comments, applications>>
        /\ UNCHANGED <<visitor, content_types>>
        /\ UNCHANGED <<now, outbox, stale>>

NextOwner ==
    \/ \E login \in {"dahlia", "guest"}, password \in {"password", "abc123"} :
          SignIn(login, password)
    \/ SignOut
    \/ \E post_id \in 1..2 : PostView(post_id, << <<"application/json", 10>> >>)
    \/ \E post_id \in 1..2 :
          EditPost(post_id, "Edited", << <<"application/json", 10>> >>)
    \/ \E post_id \in 1..2 : DeletePost(post_id)
    \/ \E post_id \in 1..2, comment_id \in 1..2 :
          DeleteComment(post_id, comment_id)
    \/ \E app_key \in AppKeys : DeleteApp(app_key)
    \/ \E user_login \in {"dahlia", "guest", "nobody"} :
          Profile(user_login, << <<"application/json", 10>> >>)
    \/ \E user_login \in {"dahlia", "guest", "nobody"} :
          Edit(user_login, "guest@example.com", << <<"application/json", 10>> >>)
    \/ \E user_login \in {"dahlia", "guest", "nobody"}, return_url \in {"", "/"} :
          Leave(user_login, return_url)
    \/ Return

SpecOwner == InitOwner /\ [][NextOwner]_vars

(***************************************************************************)
(* langdev.web.user, finding a password: a token is mailed to the user,    *)
(* and who presents it before it expires may set a new password.           *)
(* Time is counted in ticks; a token is the pair of its two parts, the     *)
(* forty characters of the checksum and the text after them.               *)
(***************************************************************************)
\* generate_token's default expiration, in ticks
expiration == 1

\* current_app.secret_key
secret_key == "secret"

HexDigits ==
    <<"0", "1", "2", "3", "4", "5", "6", "7", "8", "9", "a", "b", "c", "d",
      "e", "f">>

RECURSIVE hex(_)
\* hex(n)[2:]
hex(n) ==
    IF n < 16 THEN <<HexDigits[n + 1]>>
    ELSE hex(n \div 16) \o <<HexDigits[(n % 16) + 1]>>

\* the value of a hexadecimal digit, in either case; -1 for other characters
digit16(c) ==
    LET small == {i \in 1..16 : HexDigits[i] = c}
        capital == {i \in 11..16 :
                       <<"A", "B", "C", "D", "E", "F">>[i - 10] = c}
    IN  IF small # {} THEN Min(small) - 1
        ELSE IF capital # {} THEN Min(capital) - 1
        ELSE -1

RECURSIVE digits16(_)
digits16(s) ==
    IF s = <<>> THEN 0
    ELSE 16 * digits16(SubSeq(s, 1, Len(s) - 1)) + digit16(s[Len(s)])

\* int(s, 16): a 0x in front and zeros in front are accepted
int16(s) ==
    LET body == IF Len(s) >= 2 /\ s[1] = "0" /\ s[2] \in {"x", "X"}
                THEN SubSeq(s, 3, Len(s))
                ELSE s
    IN  IF body = <<>> \/ \E i \in 1..Len(body) : digit16(body[i]) = -1
        THEN Raise("ValueError")
        ELSE PyInt(digits16(body))

\* sumstr and its checksum: '{0},{1},{2}' of an integer, a hexadecimal
\* digest and an integer tells the three apart, so the message is the triple
token_checksum(user, expired_at) ==
    hmac_sha1_hexdigest(secret_key,
                        <<user.id, str_of(UserPassword(user)), expired_at>>)

\* generate_token(user): the token and expired_at
generate_token(user) ==
    LET expired_at == now + expiration
    IN  <<[checksum |-> token_checksum(user, expired_at),
           expired_at_hex |-> hex(expired_at)],
          expired_at>>

\* is_token_expired with a fault: the time of expiry is not compared
is_token_expired_Never(user, token) ==
    LET expired_at == int16(token.expired_at_hex)
    IN  IF 40 + Len(token.expired_at_hex) < 41 THEN abort(404)
        ELSE IF IsException(expired_at) THEN expired_at
        ELSE IF token.checksum # token_checksum(user, expired_at.int)
        THEN abort(404)
        ELSE PyBool(FALSE)

\* is_token_expired(user, token)
is_token_expired(user, token) ==
    LET expired_at == int16(token.expired_at_hex)
    IN  IF 40 + Len(token.expired_at_hex) < 41 THEN abort(404)
        ELSE IF IsException(expired_at) THEN expired_at
        ELSE IF token.checksum # token_checksum(user, expired_at.int)
        THEN abort(404)
        ELSE PyBool(expired_at.int < now)

\* the browser's Accept header
BrowserAccept == << <<"text/html", 10>> >>

\* response.status_code = status_code
SetStatus(response, status_code) == [response EXCEPT !.status = status_code]

\* the tokens that are presented: those of the mails, as they are, with a
\* zero put before the time of expiry, with the time of expiry put one tick
\* later, and cut after the checksum
Presented ==
    UNION {{m.token,
            [m.token EXCEPT !.expired_at_hex = <<"0">> \o @],
            [m.token EXCEPT !.expired_at_hex = hex(int16(@).int + 1)],
            [m.token EXCEPT !.expired_at_hex = <<>>]} : m \in outbox}

\* time.time() goes on between two requests
Tick ==
    /\ call = Idle
    /\ now < MaxTime
    /\ now' = now + 1
    /\ UNCHANGED <<users, posts, comments, applications, visitor,
                   content_types, session, call, result, outbox, stale>>

\* request_find_password(user_login): POST /<user_login>/password-findings
RequestFindPassword(user_login) ==
    LET current_user == define_current_user
        user == get_user(user_login)
        token == generate_token(user)[1]
        mail == [recipient |-> user.id, token |-> token]
    IN  /\ call = Idle
        /\ call' = [op |-> "request_find_password", user_login |-> user_login,
                    kwargs |-> <<>>]
        /\ IF user = abort(404)
           THEN /\ result' = user
                /\ outbox' = outbox
           ELSE IF Truthy(users[user.id].email)
           THEN /\ mail \in outbox \/ Cardinality(outbox) < MaxTokens
                /\ outbox' = outbox \cup {mail}
                /\ result' =
                      SetStatus(render("user/request_find_password",
                                       [type |-> "Result", user |-> user],
                                       [user |-> user],
                                       Context(BrowserAccept, current_user)),
                                201)
           ELSE /\ outbox' = outbox
                /\ result' = abort(403)
        /\ UNCHANGED <<users, posts, comments, applications, visitor,
                       content_types, session, now, stale>>

\* change_password_form(user_login, token): called for
\* GET /<user_login>/password-findings/<token>, and by change_password when
\* the token has expired
ChangePasswordForm(user_login, token) ==
    LET current_user == define_current_user
        user == get_user(user_login)
        expired == is_token_expired(user, token)
    IN  /\ \/ call = Idle
           \/ /\ call.op = "change_password"
              /\ "pc" \in DOMAIN call
              /\ call.pc = "change_password_form"
              /\ call.user_login = user_login
              /\ call.token = token
        /\ call' = IF call = Idle
                   THEN [op |-> "change_password_form",
                         user_login |-> user_login, token |-> token,
                         kwargs |-> <<>>]
                   ELSE [call EXCEPT !.pc = "done"]
        /\ result' =
              IF user = abort(404) THEN user
              ELSE IF expired.type # "bool" THEN expired
              ELSE SetStatus(render("user/change_password_form",
                                    [type |-> "ChangePasswordForm"],
                                    [user |-> user, token |-> token,
                                     expired |-> expired],
                                    Context(BrowserAccept, current_user)),
                             IF expired.bool THEN 403 ELSE 200)
        /\ UNCHANGED <<users, posts, comments, applications, visitor,
                       content_types, session, now, outbox, stale>>

\* change_password(user_login, token): POST
\* /<user_login>/password-findings/<token> with a form that validates
ChangePassword(user_login, token, password) ==
    LET current_user == define_current_user
        user == get_user(user_login)
        expired == is_token_expired(user, token)
        hash == md5_hexdigest(password)
    IN  /\ call = Idle
        /\ IF user = abort(404) \/ expired.type # "bool"
           THEN /\ call' = [op |-> "change_password", user_login |-> user_login,
                            token |-> token, kwargs |-> <<>>]
                /\ result' = IF user = abort(404) THEN user ELSE expired
                /\ UNCHANGED <<users, stale>>
           ELSE IF expired.bool
           THEN /\ call' = [op |-> "change_password", user_login |-> user_login,
                            token |-> token, pc |-> "change_password_form",
                            kwargs |-> <<>>]
                /\ result' = PyNone
                /\ UNCHANGED <<users, stale>>
           ELSE /\ call' = [op |-> "change_password", user_login |-> user_login,
                            token |-> token, password |-> password,
                            kwargs |-> <<>>]
                /\ users' = [users EXCEPT ![user.id].password_hash = hash]
                /\ stale' = IF hash = users[user.id].password_hash THEN stale
                            ELSE stale
                                 \cup {m \in outbox : m.recipient = user.id}
                /\ result' = render("user/change_password", user,
                                    [user |-> user],
                                    Context(BrowserAccept, current_user))
        /\ UNCHANGED <<posts, comments, applications, visitor, content_types,
                       session, now, outbox>>

NextToken ==
    \/ Tick
    \/ \E user_login \in {"dahlia", "guest", "nobody"} :
          RequestFindPassword(user_login)
    \/ \E user_login \in {"dahlia", "guest"}, token \in Presented :
          ChangePasswordForm(user_login, token)
    \/ \E user_login \in {"dahlia", "guest"}, token \in Presented,
          password \in {"password", "abc123"} :
          ChangePassword(user_login, token, password)
    \/ Return

SpecToken == Init /\ [][NextToken]_vars

(***************************************************************************)
(* Reading a simplified tree.                                              *)
(***************************************************************************)
\* a simplify(), json() or plist() call has returned and is not yet answered
Simplified == call.op \in {"simplify", "json", "plist"}

RECURSIVE Walk(_, _, _, _)
\* the nodes of tree t, each with: under, whether it is or lies below an
\* element of a sequence (or the call itself was made with under_list);
\* depth, its nesting level; chain, the objects whose mappings enclose it
\* with no sequence in between
Walk(t, under, depth, chain) ==
    {[node |-> t, under |-> under, depth |-> depth, chain |-> chain]}
    \cup CASE t.type = "dict" ->
                UNION {Walk(t.items[k], under, depth + 1, Append(chain, t.src)) :
                       k \in DOMAIN t.items}
           [] t.type = "list" ->
                UNION {Walk(t.elems[i], TRUE, depth + 1, <<>>) :
                       i \in 1..Len(t.elems)}
           [] OTHER -> {}

ResultNodes ==
    Walk(result, Truthy(OptionsGet(call.kwargs, "under_list")), 1, <<>>)

\* the mappings of the result made for objects of the given class
Mappings(type) ==
    {w \in ResultNodes : w.node.type = "dict" /\ w.node.src.type = type}

\* the key the call's identifier_map makes of a label
Key(label) == idmap(call.kwargs, label)

Has(w, label) == Key(label) \in DOMAIN w.node.items

Field(w, label) == w.node.items[Key(label)]

\* C1: the mapping made for a user holds the email key exactly when the
\* viewer (the user option) is that user, wherever the user appears in the
\* tree: at the top, as an author or owner, or inside a sequence.
C1_EmailOnlyForSelf ==
    (Simplified /\ ~IsException(result)) =>
        \A w \in Mappings("User") :
            Has(w, L_email) <=> (call.kwargs.user = w.node.src)

\* C1 witness: a user below the top of the tree (an author inside a
\* sequence) is shown with the email to that very user.
C1_Witness ==
    /\ Simplified
    /\ ~IsException(result)
    /\ \E w \in Mappings("User") :
          w.depth > 2 /\ w.under /\ Has(w, L_email)
          /\ call.kwargs.user = w.node.src
    /\ \E w \in Mappings("User") : ~Has(w, L_email)

\* C2 (as claimed): the mapping made for an application holds the secret
\* key exactly when the viewer is the application's owner.
C2_SecretKeyOnlyForOwner ==
    (Simplified /\ ~IsException(result)) =>
        \A w \in Mappings("Application") :
            Has(w, L_secret_key) <=>
                (call.kwargs.user = Ref("User", applications[w.node.src.id].owner))

\* C3: a post simplified under under_list has neither body nor replies; a
\* post simplified without it has both, and its replies are a sequence with
\* one element per reply: the empty sequence when the post has no reply.
C3_PostListDetail ==
    (Simplified /\ ~IsException(result)) =>
        \A w \in Mappings("Post") :
            IF w.under
            THEN ~Has(w, L_body) /\ ~Has(w, L_replies)
            ELSE /\ Has(w, L_body)
                 /\ Has(w, L_replies)
                 /\ Field(w, L_replies).type = "list"
                 /\ Len(Field(w, L_replies).elems)
                        = Cardinality(PostReplies(w.node.src.id))

\* C3 witness: a post without replies simplified at detail level carries
\* replies as the empty sequence.
C3_Witness ==
    /\ Simplified
    /\ call.value.type = "Post"
    /\ "under_list" \notin DOMAIN call.kwargs
    /\ PostReplies(call.value.id) = {}
    /\ result.type = "dict"
    /\ Has([node |-> result], L_body)
    /\ Field([node |-> result], L_replies) = PyList(<<>>)

\* C4: the mapping made for a comment always has id, author, body,
\* created-at and replies-count, and has post and replies in addition
\* exactly when it was simplified without under_list; a comment that is an
\* element of a sequence has neither.
C4_CommentListDetail ==
    (Simplified /\ ~IsException(result)) =>
        \A w \in Mappings("Comment") :
            DOMAIN w.node.items =
                {Key(L_ID), Key(L_author), Key(L_body), Key(L_created_at),
                 Key(L_replies_count)}
                \cup (IF w.under THEN {} ELSE {Key(L_post), Key(L_replies)})

\* C4 witness: a comment at the top with post and replies, whose replies
\* hold a comment that has neither.
C4_Witness ==
    /\ Simplified
    /\ call.value.type = "Comment"
    /\ result.type = "dict"
    /\ Has([node |-> result], L_post)
    /\ Field([node |-> result], L_replies).type = "list"
    /\ \E w \in Mappings("Comment") :
          w.under /\ w.depth = 3 /\ ~Has(w, L_post) /\ ~Has(w, L_replies)

RECURSIVE ChainLength(_)
\* the length of the reply chain that ends in comment c
ChainLength(c) ==
    IF comments[c].parent = NULL THEN 1
    ELSE 1 + ChainLength(comments[c].parent)

\* C5: every call of simplify returns, without exhausting the interpreter's
\* stack; the tree it returns is at most 6 levels deep (comment, its post,
\* the replies, a reply, its author, a field) however long the reply chains
\* are; and no mapping made for an object encloses another mapping made for
\* the same object unless a sequence lies between them.
C5_TerminatesBounded ==
    Simplified =>
        /\ ~IsException(result)
        /\ \A w \in ResultNodes :
              /\ w.depth <= 6
              /\ w.node.type = "dict" =>
                    \A i \in 1..Len(w.chain) : w.chain[i] # w.node.src

\* C5 witness: a comment with a reply chain below it is simplified at
\* detail level, its post's replies containing the comment again (the
\* cycle), and the tree reaches the sixth level.
C5_Witness ==
    /\ Simplified
    /\ call.value.type = "Comment"
    /\ "under_list" \notin DOMAIN call.kwargs
    /\ \E c \in DOMAIN comments : ChainLength(c) >= 2
    /\ ~IsException(result)
    /\ \E w \in Mappings("Comment") : w.depth = 4 /\ w.node.src = call.value
    /\ \E w \in ResultNodes : w.depth = 6

\* the classes of the mro of the looked-up type that are registered
Registered(type) ==
    {i \in 1..Len(mro(type)) : mro(type)[i] \in DOMAIN visitor.functions}

\* C6: lookup returns, and dispatch calls, the function registered for the
\* first registered class of the type's mro: the supertype's when only the
\* supertype is registered, the type's own when both are.
C6_LookupFirstInMro ==
    /\ call.op = "getitem" =>
          \A i \in Registered(call.type) :
              (\A j \in Registered(call.type) : i <= j) =>
                  result = visitor.functions[mro(call.type)[i]]
    /\ call.op = "call" =>
          \A i \in Registered(call.value.type) :
              ((\A j \in Registered(call.value.type) : i <= j)
               /\ visitor.functions[mro(call.value.type)[i]].type = "function")
              => result = PyStr(visitor.functions[mro(call.value.type)[i]].name)

\* C6 witness: a bool is dispatched with int and object registered, with
\* different functions, and bool not: int's function answers.
C6_Witness ==
    /\ call.op = "call"
    /\ call.value.type = "bool"
    /\ "int" \in DOMAIN visitor.functions
    /\ "bool" \notin DOMAIN visitor.functions
    /\ "object" \in DOMAIN visitor.functions
    /\ visitor.functions["object"] # visitor.functions["int"]
    /\ visitor.functions["int"].type = "function"
    /\ result = PyStr(visitor.functions["int"].name)

\* C7: dispatch on a value none of whose classes is registered raises
\* TypeError instead of any function's result.
C7_DispatchUnregistered ==
    (call.op = "call" /\ Registered(call.value.type) = {}) =>
        result = Raise("TypeError")

\* C7 witness: with other types registered, a value of an unregistered type
\* is dispatched and TypeError comes back.
C7_Witness ==
    /\ call.op = "call"
    /\ Registered(call.value.type) = {}
    /\ DOMAIN visitor.functions # {}
    /\ result = Raise("TypeError")

\* values that are neither registered, nor iterable, nor primitive
Unsupported(v) == v.type = "Password"

\* C8 (as claimed): simplifying a value that is unregistered, not iterable
\* and not primitive, at the top or inside a sequence, raises an error.
C8_UnsupportedRaises ==
    (/\ Simplified
     /\ \/ Unsupported(call.value)
        \/ /\ call.value.type = "list"
           /\ \E i \in 1..Len(call.value.elems) :
                 Unsupported(call.value.elems[i]))
    => IsException(result)

\* C8 (amended): such a value raises nothing and is returned as it is: at
\* the top it is the result, inside a sequence it is the element of the
\* result at its position.
C8_UnsupportedPassesThrough ==
    Simplified =>
        /\ Unsupported(call.value) => result = call.value
        /\ call.value.type = "list" =>
              /\ result.type = "list"
              /\ Len(result.elems) = Len(call.value.elems)
              /\ \A i \in 1..Len(call.value.elems) :
                    Unsupported(call.value.elems[i]) =>
                        result.elems[i] = call.value.elems[i]

\* C8 witness: a sequence holding a Password object has been simplified.
C8_Witness ==
    /\ Simplified
    /\ call.value.type = "list"
    /\ \E i \in 1..Len(call.value.elems) :
          /\ Unsupported(call.value.elems[i])
          /\ result.elems[i] = call.value.elems[i]

\* what one application of the call's type_map makes of an intermediate
\* result d
EncodedOnce(d) ==
    LET type_map == IF "type_map" \in DOMAIN call.kwargs
                    THEN call.kwargs.type_map ELSE <<>>
    IN  IF d.type \in DOMAIN type_map THEN mapf(type_map[d.type], d) ELSE d

\* C9: every node of the tree is the intermediate result encoded once by
\* the encoder of the intermediate result's own type: a primitive at the
\* top, each element of a sequence, each field of a user; a mapping or a
\* sequence, for whose type the type_map has no encoder, is returned as a
\* mapping or a sequence even when the type of the value it was made from
\* (User, AppenderQuery) has one.
C9_EncodedOncePerNode ==
    (Simplified /\ ~IsException(result)) =>
        /\ (~Contains(visitor, call.value.type) /\ ~hasattr_iter(call.value))
              => result = EncodedOnce(call.value)
        /\ call.value.type \in {"User", "Post", "Comment", "Application"}
              => result.type = "dict"
        /\ hasattr_iter(call.value) =>
              /\ result.type = "list"
              /\ \A i \in 1..Len(call.value.elems) :
                    (/\ ~Contains(visitor, call.value.elems[i].type)
                     /\ ~hasattr_iter(call.value.elems[i]))
                    => result.elems[i] = EncodedOnce(call.value.elems[i])
        /\ \A w \in Mappings("User") :
              /\ Field(w, L_created_at)
                    = EncodedOnce(users[w.node.src.id].created_at)
              /\ Field(w, L_url) = EncodedOnce(users[w.node.src.id].url)
              /\ Field(w, L_login) = EncodedOnce(users[w.node.src.id].login)
        /\ \A w \in Mappings("Application") :
              Field(w, L_key) = EncodedOnce(applications[w.node.src.id].key)

\* C9 witness: under a type_map with encoders for datetime, for str (the
\* type the datetime encoder returns), for User and for AppenderQuery, a
\* sequence of posts has been simplified to a sequence whose authors'
\* created-at are ISO strings.
C9_Witness ==
    /\ Simplified
    /\ "type_map" \in DOMAIN call.kwargs
    /\ {"datetime", "str", "User", "AppenderQuery"}
          \subseteq DOMAIN call.kwargs.type_map
    /\ call.value.type = "AppenderQuery"
    /\ result.type = "list"
    /\ \E w \in Mappings("User") :
          Field(w, L_created_at)
              = datetime_isoformat(users[w.node.src.id].created_at)

\* C10 (as claimed): in the tree plist() hands to the writer no date and no
\* date-time is left: each has become its ISO-8601 string.
C10_PlistNoDateLeft ==
    (call.op = "plist" /\ ~IsException(result)) =>
        /\ \A w \in ResultNodes : w.node.type \notin {"date", "datetime"}
        /\ \A w \in Mappings("User") :
              Field(w, L_created_at)
                  = datetime_isoformat(users[w.node.src.id].created_at)

\* C10 (amended): in the tree plist() hands to the writer every value whose
\* type is exactly date has become its ISO-8601 string, and every
\* date-time (the created-at and modified-at of the entities) is still the
\* date-time it was.
C10_PlistDatesOnly ==
    (call.op = "plist" /\ ~IsException(result)) =>
        /\ \A w \in ResultNodes : w.node.type # "date"
        /\ call.value.type = "date" => result = date_isoformat(call.value)
        /\ call.value.type = "list" =>
              \A i \in 1..Len(call.value.elems) :
                  call.value.elems[i].type = "date" =>
                      result.elems[i] = date_isoformat(call.value.elems[i])
        /\ call.value.type = "datetime" => result = call.value
        /\ \A w \in Mappings("User") :
              Field(w, L_created_at) = users[w.node.src.id].created_at
        /\ \A w \in Mappings("Post") :
              /\ Field(w, L_created_at) = posts[w.node.src.id].created_at
              /\ Field(w, L_modified_at) = posts[w.node.src.id].modified_at
        /\ \A w \in Mappings("Comment") :
              Field(w, L_created_at) = comments[w.node.src.id].created_at
        /\ \A w \in Mappings("Application") :
              Field(w, L_created_at) = applications[w.node.src.id].created_at

\* C10 witness: plist() has simplified a post with a reply, whose
\* created-at and modified-at are date-times in the tree.
C10_Witness ==
    /\ call.op = "plist"
    /\ call.value.type = "Post"
    /\ result.type = "dict"
    /\ Field([node |-> result], L_modified_at).type = "datetime"
    /\ \E w \in Mappings("Comment") : Field(w, L_created_at).type = "datetime"

\* C11: in the tree plist() hands to the writer no None is left: a None at
\* the top, as an element of a sequence or as a field of a user (url, email)
\* has become False; json() leaves each of them None.
C11_PlistNullIsFalse ==
    /\ (call.op = "plist" /\ ~IsException(result)) =>
          /\ \A w \in ResultNodes : w.node.type # "NoneType"
          /\ call.value = PyNone => result = PyBool(FALSE)
          /\ call.value.type = "list" =>
                \A i \in 1..Len(call.value.elems) :
                    call.value.elems[i] = PyNone =>
                        result.elems[i] = PyBool(FALSE)
          /\ \A w \in Mappings("User") :
                /\ users[w.node.src.id].url = PyNone =>
                      Field(w, L_url) = PyBool(FALSE)
                /\ (Has(w, L_email) /\ users[w.node.src.id].email = PyNone)
                      => Field(w, L_email) = PyBool(FALSE)
    /\ (call.op = "json" /\ ~IsException(result)) =>
          /\ call.value = PyNone => result = PyNone
          /\ call.value.type = "list" =>
                \A i \in 1..Len(call.value.elems) :
                    call.value.elems[i] = PyNone => result.elems[i] = PyNone
          /\ \A w \in Mappings("User") :
                /\ users[w.node.src.id].url = PyNone =>
                      Field(w, L_url) = PyNone
                /\ (Has(w, L_email) /\ users[w.node.src.id].email = PyNone)
                      => Field(w, L_email) = PyNone

\* C11 witness: plist() has simplified a sequence of users for a viewer who
\* has neither url nor email: both are False in the viewer's own mapping,
\* two levels down.
C11_Witness ==
    /\ call.op = "plist"
    /\ call.value.type = "list"
    /\ \E w \in Mappings("User") :
          /\ w.depth = 2
          /\ users[w.node.src.id].email = PyNone
          /\ Field(w, L_url) = PyBool(FALSE)
          /\ Has(w, L_email)
          /\ Field(w, L_email) = PyBool(FALSE)

Labels(type, self, under) ==
    CASE type = "User" ->
             {L_ID, L_login, L_name, L_url, L_created_at, L_posts_count,
              L_comments_count} \cup (IF self THEN {L_email} ELSE {})
      [] type = "Post" ->
             {L_ID, L_author, L_title, L_sticky, L_created_at, L_modified_at,
              L_comments_count, L_replies_count}
             \cup (IF under THEN {} ELSE {L_body, L_replies})
      [] type = "Comment" ->
             {L_ID, L_author, L_body, L_created_at, L_replies_count}
             \cup (IF under THEN {} ELSE {L_post, L_replies})
      [] type = "Application" ->
             {L_key, L_owner, L_title, L_description, L_url, L_created_at}
             \cup (IF self THEN {L_secret_key} ELSE {})

SawUnderList(w) ==
    IF w.node.src.type = "Post"
    THEN ~Has(w, L_body) /\ ~Has(w, L_replies)
    ELSE ~Has(w, L_post) /\ ~Has(w, L_replies)

\* the handler saw no or a false under_list: it emitted those fields
SawNoUnderList(w) ==
    IF w.node.src.type = "Post"
    THEN Has(w, L_body) /\ Has(w, L_replies)
    ELSE Has(w, L_post) /\ Has(w, L_replies)

\* C14: in a call started without under_list (absent or False), the handler
\* of a post or comment sees under_list true exactly when its value is, or
\* lies below, an element of a sequence; a mapping that is a plain field
\* (the post of a comment) is made without the flag although its own
\* replies, and those of the comment next to it, were made with it.
C14_UnderListOnlyBelowSequences ==
    (/\ Simplified
     /\ ~IsException(result)
     /\ ~Truthy(OptionsGet(call.kwargs, "under_list")))
    => \A w \in Mappings("Post") \cup Mappings("Comment") :
           IF w.under THEN SawUnderList(w) ELSE SawNoUnderList(w)

\* C14 witness: a comment with a reply, simplified without under_list: its
\* post, a plain field next to the replies, is in detail form, and the
\* comments inside the post's replies and inside its own are in list form.
C14_Witness ==
    /\ Simplified
    /\ "under_list" \notin DOMAIN call.kwargs
    /\ call.value.type = "Comment"
    /\ result.type = "dict"
    /\ \E w \in Mappings("Post") : w.depth = 2 /\ ~w.under /\ SawNoUnderList(w)
    /\ \E w \in Mappings("Comment") : w.depth = 4 /\ w.under /\ SawUnderList(w)
    /\ \E w \in Mappings("Comment") : w.depth = 3 /\ w.under /\ SawUnderList(w)

\* render() has returned or raised and the request is not yet answered
Rendered == call.op = "render"

\* the content types render() can produce for the request's template
Available ==
    LET types == available_types(call.ctx.templates)
    IN  {types[i] : i \in 1..Len(types)}

\* the content types in the order the source declares them
DeclaredOrder ==
    <<"text/html", "application/xhtml+xml", "text/xml", "application/json",
      "application/plist+xml", "application/x-plist">>

\* the position of a content type in a sequence of content types
PositionIn(order, mime) == CHOOSE i \in 1..Len(order) : order[i] = mime

\* a media range of HTTP covers a content type: by name, as */*, or as the
\* partial wildcard text/*
RangeCovers(range, mime) ==
    \/ range = mime
    \/ range = "*/*"
    \/ range = "text/*" /\ mime \in {"text/html", "text/xml"}

\* the entries of the request's Accept header that count for a content
\* type: those naming it and */*
CountedEntries(mime) ==
    {j \in 1..Len(call.ctx.accept_mimetypes) :
        value_matches(call.ctx.accept_mimetypes[j][1], mime)}

\* the highest q among some entries of the header
TopQuality(entries) == Max({call.ctx.accept_mimetypes[j][2] : j \in entries})

\* exactly one entry of the header names an available type or */*, and it
\* is */*
LoneWildcard ==
    LET left == {j \in 1..Len(call.ctx.accept_mimetypes) :
                    \/ call.ctx.accept_mimetypes[j][1] \in Available
                    \/ call.ctx.accept_mimetypes[j][1] = "*/*"}
    IN  /\ Cardinality(left) = 1
        /\ \A j \in left : call.ctx.accept_mimetypes[j][1] = "*/*"

C17_NothingMatches406 ==
    (/\ Rendered
     /\ \A j \in 1..Len(call.ctx.accept_mimetypes) :
           \A m \in Available : ~RangeCovers(call.ctx.accept_mimetypes[j][1], m))
    => result = abort(406)

\* C17 witness: Accept: application/xml, with every template and both
\* encoders available, has been answered by 406.
C17_Witness ==
    /\ Rendered
    /\ call.ctx.accept_mimetypes = << <<"application/xml", 10>> >>
    /\ call.ctx.templates = {".html", ".xml"}
    /\ result = abort(406)
    /\ "body" \notin DOMAIN result

\* C18: every response of render carries Vary: Accept, has the negotiated
\* content type as its mimetype, and its body was made by the serializer
\* content_types gives for that type: a template's by the template with
\* that postfix, an encoder's by that encoder.
C18_VaryAndMimetype ==
    (Rendered /\ result.type = "Response") =>
        /\ "Vary" \in DOMAIN result.headers
        /\ result.headers["Vary"] = "Accept"
        /\ result.mimetype
              = negotiate(call.ctx.accept_mimetypes, call.ctx.templates)
        /\ LET serializer == serializer_of(result.mimetype).str
           IN  CASE serializer \in {".html", ".xml"} ->
                        result.body.template = "user/profile" \o serializer
                 [] serializer = "langdev.web.serializers:json" ->
                        result.body.writer = "flask.json.dumps"
                 [] serializer = "langdev.web.serializers:plist" ->
                        result.body.writer = "plistlib.writePlistToString"

\* C18 witness: a template response, text/xml, with Vary: Accept.
C18_Witness ==
    /\ Rendered
    /\ result.type = "Response"
    /\ result.mimetype = "text/xml"
    /\ result.body = render_template("user/profile.xml", [user |-> call.value])
    /\ result.headers = [Vary |-> "Accept"]

(***************************************************************************)
(* Reading the answer of the single sign-on API.                           *)
(***************************************************************************)
\* an SSO request was answered with a response, not an HTTP error
SsoAnswered == call.op = "sso" /\ result.type = "Response"

\* what the response tells the third party: the template is given success;
\* the encoders are given False on failure, and True or the user on success
ReportsSuccess ==
    IF "data" \in DOMAIN result.body
    THEN result.body.data # PyBool(FALSE)
    ELSE result.body.context.success

\* the applications registered under the key of the request
SsoApps == {a \in DOMAIN applications : applications[a].key.str = call.app_key}

\* the users the request names, by login name or by email address
SsoUsers ==
    {u \in DOMAIN users : \/ users[u].login = PyUnicode(call.user_login)
                          \/ users[u].email = PyUnicode(call.user_login)}

\* HMAC-SHA1 with the application's secret key over the user's password hash
ExpectedPassword(a, u) ==
    hmac_sha1_hexdigest(applications[a].secret_key.str, users[u].password_hash)

\* the password parameter is the one expected for the application and user
PasswordMatches(u) ==
    /\ "password" \in DOMAIN call.values
    /\ \E a \in SsoApps : call.values["password"] = ExpectedPassword(a, u)

\* C19 (as claimed): for a registered application and an existing user named
\* by the request, the answer reports success exactly when the password
\* parameter is HMAC-SHA1 with that application's secret key over that
\* user's password hash.
C19_SuccessIffHmacMatches ==
    SsoAnswered =>
        \A u \in SsoUsers : ReportsSuccess <=> PasswordMatches(u)

\* C19: when the request names exactly one user (by login name, or by an
\* email address only that user has), the answer reports success exactly
\* when the password parameter is HMAC-SHA1 with the application's secret
\* key over that user's password hash, so a digest made with another
\* application's secret key or over another user's hash reports failure;
\* when the email address is that of several users, the answer reports
\* failure whatever the password is.
C19_SuccessIffHmacMatchesUniqueUser ==
    SsoAnswered =>
        /\ Cardinality(SsoUsers) = 1 =>
              \A u \in SsoUsers : ReportsSuccess <=> PasswordMatches(u)
        /\ Cardinality(SsoUsers) > 1 => ~ReportsSuccess

\* C19 witness: the second application signs a user in by an email address
\* only that user has, with the digest made with its own secret key.
C19_Witness ==
    /\ SsoAnswered
    /\ call.app_key = "92eb5ffe"
    /\ call.user_login = "guest@example.com"
    /\ SsoUsers = {2}
    /\ call.values["password"] = ExpectedPassword(2, 2)
    /\ ReportsSuccess

\* the keys the encoders give the email of a user
EmailKeys ==
    {idmap(json_kwargs(PyNone), L_email), idmap(plist_kwargs(PyNone), L_email)}

\* the request was answered by an encoder: its data is what is serialized
Serialized ==
    /\ result.type = "Response"
    /\ "body" \in DOMAIN result
    /\ "data" \in DOMAIN result.body

\* the users whose email is in the serialized data
EmailsShown ==
    {w.node.src : w \in {v \in Walk(result.body.data, FALSE, 1, <<>>) :
                            /\ v.node.type = "dict"
                            /\ v.node.src.type = "User"
                            /\ EmailKeys \cap DOMAIN v.node.items # {}}}

\* the request is an SSO request for the user that succeeded and asked for
\* the user info
SsoGivesUserInfo(user) ==
    /\ call.op = "sso"
    /\ user.id \in SsoUsers
    /\ PasswordMatches(user.id)
    /\ "with" \in DOMAIN call.values
    /\ call.values["with"] = "userinfo"

\* what C20 says of every answer
C20_EmailOnlyToSelfOrSso ==
    /\ Serialized =>
          \A user \in EmailsShown :
              call.viewer = user \/ SsoGivesUserInfo(user)
    /\ (SsoAnswered /\ Serialized /\ ~ReportsSuccess) =>
          result.body.data = PyBool(FALSE)

\* C20: over any sequence of requests, the email of a user is serialized
\* only in an answer to a request of that signed-in user, or in the answer
\* of an SSO request for that user that succeeded and asked for the user
\* info; a failed SSO request is answered with False and no field of a
\* profile; and an SSO request leaves the session as it was, so that the
\* requests after it are answered for the identity signed in before it.
C20_EmailOnlyInSsoResponse ==
    /\ []C20_EmailOnlyToSelfOrSso
    /\ [][call'.op = "sso" => session' = session]_vars

\* C20 witness: while another user is signed in, a successful SSO request
\* with user info is answered with the email of the user it names, and the
\* session is still that of the other user.
C20_Witness ==
    /\ SsoAnswered
    /\ Serialized
    /\ EmailsShown = {Ref("User", 1)}
    /\ SsoGivesUserInfo(Ref("User", 1))
    /\ call.viewer = Ref("User", 2)
    /\ define_current_user = Ref("User", 2)

(***************************************************************************)
(* The identifier functions.                                               *)
(***************************************************************************)
\* the identifier functions have been applied to a label
Identified == call.op = "identifier_map"

\* the words joined, the first by f and each later one by g
JoinedWords(words, f(_), g(_)) ==
    str_join(<<>>, [i \in 1..Len(words) |->
                      IF i = 1 THEN f(words[i]) ELSE g(words[i])])

\* the first letter upper-case, the other letters as they are
UpperFirst(word) == <<char_upper(word[1])>> \o Tail(word)

\* the first letter upper-case, the other letters lower-case
UpperFirstLowerRest(word) == <<char_upper(word[1])>> \o str_lower(Tail(word))

\* C21 (as claimed): camelCase of a label is PascalCase of it with the first
\* word fully lower-case: the later words have the first letter upper-case
\* and keep the casing of their other letters.
C21_CamelIsPascalLowerFirstWord ==
    Identified =>
        /\ result.PascalCase
              = JoinedWords(str_split(call.label), UpperFirst, UpperFirst)
        /\ result.camelCase
              = JoinedWords(str_split(call.label), str_lower, UpperFirst)

\* C21: camelCase of a label is its first word fully lower-case followed by
\* each later word with the first letter upper-case and the other letters
\* lower-case; PascalCase keeps the other letters of every word as they
\* are, so the two agree after the first word only on words whose other
\* letters are lower-case already.
C21_CamelCapitalizesLaterWords ==
    Identified =>
        /\ result.PascalCase
              = JoinedWords(str_split(call.label), UpperFirst, UpperFirst)
        /\ result.camelCase
              = JoinedWords(str_split(call.label), str_lower, UpperFirstLowerRest)

\* C21 witness: a label whose second word has an upper-case letter after
\* its first: camelCase lowers it, PascalCase keeps it.
C21_Witness ==
    /\ Identified
    /\ call.label = <<"a", " ", "a", "B">>
    /\ result.PascalCase = <<"A", "A", "B">>
    /\ result.camelCase = <<"a", "A", "b">>

(***************************************************************************)
(* The pager.                                                              *)
(***************************************************************************)
\* a pager has been iterated
Paged == call.op = "pager"

\* the positions of the yielded pairs with the given flag
Flagged(flag) == {k \in 1..Len(result.elems) : result.elems[k][1] = flag}

\* C22 (as claimed): a pager of length >= 1, 1 <= selected_page <= length
\* and width >= 1 yields exactly one pair flagged 'selected', and its page
\* is selected_page; no page is yielded twice; the pair flagged 'first' is
\* page 1 and the pair flagged 'last' is page length.
C22_OneSelectedNoPageTwice ==
    Paged =>
        /\ Cardinality(Flagged(SELECTED)) = 1
        /\ \A k \in Flagged(SELECTED) : result.elems[k][2] = call.selected_page
        /\ \A j, k \in 1..Len(result.elems) :
              result.elems[j][2] = result.elems[k][2] => j = k
        /\ \A k \in Flagged(FIRST) : result.elems[k][2] = 1
        /\ \A k \in Flagged(LAST) : result.elems[k][2] = call.length

(***************************************************************************)
(* The method rewriting middleware.                                        *)
(***************************************************************************)
\* a request has passed the middleware
Rewritten == call.op = "wsgi"

\* the values the query string of the request gives __method__, written
\* with or without percent escapes, in upper case
MethodValues ==
    IF "QUERY_STRING" \notin DOMAIN call.environ THEN {}
    ELSE {upper(call.environ.QUERY_STRING[k][2]) :
            k \in {j \in 1..Len(call.environ.QUERY_STRING) :
                     call.environ.QUERY_STRING[j][1]
                         \in {"__method__", "%5F%5Fmethod%5F%5F"}}}

\* C23: the middleware passes the environ on with nothing but
\* REQUEST_METHOD changed, and changes REQUEST_METHOD only when the method
\* of the request is POST and the query string gives __method__ one of
\* HEAD, GET, POST, PUT, DELETE in any case, and then to that value; a
\* request that is not a POST, or has no __method__ or an unlisted one,
\* reaches the application with its method, so no GET becomes a PUT or a
\* DELETE; a POST whose query string begins with __method__ and a listed
\* value reaches it with that value as its method.
C23_RewriteOnlyPost ==
    Rewritten =>
        /\ DOMAIN result.environ = DOMAIN call.environ
        /\ \A key \in DOMAIN call.environ \ {"REQUEST_METHOD"} :
              result.environ[key] = call.environ[key]
        /\ result.environ.REQUEST_METHOD # call.environ.REQUEST_METHOD =>
              /\ call.environ.REQUEST_METHOD \in {"POST", "post"}
              /\ result.environ.REQUEST_METHOD
                    \in MethodValues \cap {"HEAD", "GET", "POST", "PUT", "DELETE"}
        /\ (\/ call.environ.REQUEST_METHOD \notin {"POST", "post"}
            \/ MethodValues \cap {"HEAD", "GET", "POST", "PUT", "DELETE"} = {})
              => result.environ.REQUEST_METHOD = call.environ.REQUEST_METHOD
        /\ (/\ call.environ.REQUEST_METHOD \in {"POST", "post"}
            /\ "QUERY_STRING" \in DOMAIN call.environ
            /\ call.environ.QUERY_STRING # <<>>
            /\ call.environ.QUERY_STRING[1][1] = "__method__"
            /\ upper(call.environ.QUERY_STRING[1][2])
                  \in {"HEAD", "GET", "POST", "PUT", "DELETE"})
              => result.environ.REQUEST_METHOD
                    = upper(call.environ.QUERY_STRING[1][2])

\* C23 witness: a POST with ?__method__=delete reaches the application as
\* DELETE.
C23_Witness ==
    /\ Rewritten
    /\ call.environ.REQUEST_METHOD = "POST"
    /\ "QUERY_STRING" \in DOMAIN call.environ
    /\ call.environ.QUERY_STRING = << <<"__method__", "delete">> >>
    /\ result.environ.REQUEST_METHOD = "DELETE"

(***************************************************************************)
(* Signing in and out.                                                     *)
(***************************************************************************)
\* C24 (as claimed): signing out completes without an error and leaves the
\* session without a user_id, whether somebody was signed in or not; after
\* signing in as a user, the session holds the id of that user, and the
\* current user of the next request is that user.
C24_SignOutInAnySession ==
    /\ call.op = "signout" =>
          /\ ~IsException(result)
          /\ "user_id" \notin DOMAIN session
    /\ call.op = "signin" =>
          /\ "user_id" \in DOMAIN session
          /\ users[session["user_id"]].login = PyUnicode(call.login)
          /\ define_current_user = Ref("User", session["user_id"])


(***************************************************************************)
(* The registries while requests are served.                               *)
(***************************************************************************)
\* the step registers one function: no call is under way, no type loses its
\* entry, and at most one type has a new or another function
RegistersOne ==
    /\ call = Idle
    /\ call' = Idle
    /\ DOMAIN visitor.functions \subseteq DOMAIN visitor'.functions
    /\ \E type \in DOMAIN visitor'.functions :
          /\ DOMAIN visitor'.functions = DOMAIN visitor.functions \cup {type}
          /\ \A t \in DOMAIN visitor.functions \ {type} :
                visitor'.functions[t] = visitor.functions[t]

\* C25: no operation of a request changes the registries: a lookup, a
\* membership test or a call of the visitor, simplify and render leave the
\* visitor's table as it was, and no step changes content_types; the table
\* changes only when a function is registered, which adds or overwrites the
\* entry of one type and removes none.
C25_RegistriesOnlyChangedByRegister ==
    [][/\ content_types' = content_types
       /\ call'.op \in {"getitem", "contains", "call", "simplify", "render"}
             => visitor' = visitor
       /\ visitor' # visitor => RegistersOne]_vars

\* render has answered on a table where "Password" was added and the entry
\* of "list" was overwritten
C25_Witness ==
    /\ call.op = "render"
    /\ "body" \in DOMAIN result
    /\ "Password" \in DOMAIN visitor.functions
    /\ visitor.functions["list"] = PyFunction("compile_int")
    /\ DOMAIN TransformVisitor.functions \subseteq DOMAIN visitor.functions
    /\ content_types = InitContentTypes
    /\ now = 0
    /\ outbox = {}
    /\ stale = {}

(***************************************************************************)
(* Which handler simplify takes.                                           *)
(***************************************************************************)
\* the options simplify hands to the handlers
OptionsOf(kwargs) ==
    [k \in DOMAIN kwargs \cup {"type_map", "url_map", "user"} |->
        IF k \in DOMAIN kwargs THEN kwargs[k]
        ELSE IF k = "type_map" THEN <<>> ELSE PyNone]

\* a class of the value's mro, or its type, has an entry in the table
HasRegistration(value) ==
    \E t \in {value.type} \cup {mro(value.type)[i] :
                                   i \in 1..Len(mro(value.type))} :
       t \in DOMAIN visitor.functions

\* the function registered for the nearest class of the value's mro
OwnHandler(value) ==
    LET m == mro(value.type)
        i == CHOOSE i \in 1..Len(m) :
                 /\ m[i] \in DOMAIN visitor.functions
                 /\ \A j \in 1..(i - 1) : m[j] \notin DOMAIN visitor.functions
    IN  visitor.functions[m[i]]

SimplifiedPlain ==
    /\ call.op = "simplify"
    /\ OptionsOf(call.kwargs).type_map = <<>>

\* C26: simplify hands a value to the handler of Iterable only when no class
\* of its mro is registered and the value is iterable; a value of a
\* registered class goes to that class's handler, iterable or not, and a
\* value that is neither registered nor iterable is returned as it is.
C26_IterableHandlerIsFallback ==
    SimplifiedPlain =>
        LET value == call.value
            options == OptionsOf(call.kwargs)
        IN  /\ HasRegistration(value) =>
                  result = Apply(OwnHandler(value), value, options, 1)
            /\ (~HasRegistration(value) /\ hasattr_iter(value)) =>
                  result = Apply(visitor.functions["Iterable"], value,
                                 options, 1)
            /\ (~HasRegistration(value) /\ ~hasattr_iter(value)) => result = value

\* a list was simplified while another handler than Iterable's is registered
\* for list, and the two handlers give different results
C26_Witness ==
    /\ SimplifiedPlain
    /\ call.value.type = "list"
    /\ visitor.functions["list"] # visitor.functions["Iterable"]
    /\ result = PyStr("compile_int")
    /\ result # Apply(visitor.functions["Iterable"], call.value,
                      OptionsOf(call.kwargs), 1)

\* a query, of no registered class, went to the handler of Iterable
C26_WitnessFallback ==
    /\ SimplifiedPlain
    /\ call.value.type = "AppenderQuery"
    /\ ~HasRegistration(call.value)
    /\ result = PyList(<<PyInt(2)>>)

(***************************************************************************)
(* Who may change what belongs to a user.                                  *)
(***************************************************************************)
OwnerOps ==
    {"forum.edit", "forum.delete", "forum.delete_comment", "edit",
     "user.leave", "thirdparty.delete_app"}

\* the id of the user a post, a comment, an application or an account
\* belongs to
OwnerOf(target) ==
    CASE target.type = "Post" -> posts[target.id].author
      [] target.type = "Comment" -> comments[target.id].author
      [] target.type = "Application" -> applications[target.id].owner
      [] target.type = "User" -> target.id

\* the row of the target
Stored(target, p, c, a, u) ==
    LET table == CASE target.type = "Post" -> p
                   [] target.type = "Comment" -> c
                   [] target.type = "Application" -> a
                   [] target.type = "User" -> u
    IN  IF target.id \in DOMAIN table THEN table[target.id] ELSE PyNone

\* the step is the first step of a request for one of the operations on
\* something that exists
OwnerRequest ==
    /\ call = Idle
    /\ call'.op \in OwnerOps
    /\ call'.target # abort(404)

C27_WitnessLeft ==
    /\ call.op = "user.leave"
    /\ result = PyStr("")
    /\ DOMAIN users = {1}

(***************************************************************************)
(* Finding a password: when a token lets the password be changed.          *)
(***************************************************************************)
\* the step is change_password storing the hash of the form's password
PasswordChanged ==
    /\ call = Idle
    /\ call'.op = "change_password"
    /\ "password" \in DOMAIN call'
    /\ users' = [users EXCEPT ![get_user(call'.user_login).id].password_hash =
                                  md5_hexdigest(call'.password)]

\* the checksum is the one of the user, the hash stored for the user and
\* the time of expiry the token gives, and that time has not passed
ChecksumMatches(user, token) ==
    /\ ~IsException(int16(token.expired_at_hex))
    /\ token.checksum
          = hmac_sha1_hexdigest(
                secret_key,
                <<user.id, users[user.id].password_hash,
                  int16(token.expired_at_hex).int>>)
    /\ int16(token.expired_at_hex).int >= now

\* C28 as stated: change_password changes the password of a user only for
\* a token whose checksum is the HMAC of the user's id, the user's present
\* password hash and the token's time of expiry, not yet passed; never for
\* a token mailed to another user, for one whose expiry part is not as it
\* was mailed, or for an expired one.
C28_ChangeOnlyByTokenAsMailed ==
    [][PasswordChanged =>
          LET user == get_user(call'.user_login)
          IN  /\ ChecksumMatches(user, call'.token)
              /\ \E m \in outbox :
                    m.recipient = user.id /\ m.token = call'.token]_vars

\* C28: change_password changes the password of a user only for a token
\* whose checksum is the HMAC of the user's id, the user's present password
\* hash and the token's time of expiry, not yet passed; never for a token
\* mailed to another user, for one whose expiry part gives another time
\* than the one mailed, or for an expired one.
C28_ChangeOnlyByTokenOfSameTime ==
    [][PasswordChanged =>
          LET user == get_user(call'.user_login)
          IN  /\ ChecksumMatches(user, call'.token)
              /\ \E m \in outbox :
                    /\ m.recipient = user.id
                    /\ m.token.checksum = call'.token.checksum
                    /\ int16(m.token.expired_at_hex)
                          = int16(call'.token.expired_at_hex)]_vars

\* the password was changed by a token with a zero put before the time of
\* expiry, after a tick of the clock
C28_Witness ==
    /\ call.op = "change_password"
    /\ "password" \in DOMAIN call
    /\ Len(call.token.expired_at_hex) = 2
    /\ call.token.expired_at_hex[1] = "0"
    /\ users[1].password_hash = md5_hexdigest(call.password)
    /\ users[1].password_hash # InitUsers[1].password_hash
    /\ now = 1

\* a token was refused as expired
C28_WitnessExpired ==
    /\ call.op = "change_password"
    /\ result.type = "Response"
    /\ result.status = 403

(***************************************************************************)
(* Finding a password: a token after the password was changed.             *)
(***************************************************************************)
\* the step is the first of a request that presents a token mailed to the
\* user before a change of the user's password hash
StalePresented ==
    /\ call = Idle
    /\ call'.op \in {"change_password_form", "change_password"}
    /\ get_user(call'.user_login) # abort(404)
    /\ \E m \in stale :
          /\ m.recipient = get_user(call'.user_login).id
          /\ m.token = call'.token

\* C29: once a change of password has altered the stored hash of a user,
\* change_password_form and change_password answer every token mailed to
\* the user before that change with 404, expired or not.
C29_StaleTokenNotFound ==
    [][StalePresented => result' = abort(404)]_vars

(***************************************************************************)
(* render(): does it answer whenever the client accepts something that is  *)
(* available.                                                              *)
(***************************************************************************)
\* an entry of the header with a q above 0 names an available content type,
\* or is */* while some content type is available
Admitted ==
    \E j \in 1..Len(call.ctx.accept_mimetypes) :
       /\ call.ctx.accept_mimetypes[j][2] > 0
       /\ \/ call.ctx.accept_mimetypes[j][1] \in Available
          \/ call.ctx.accept_mimetypes[j][1] = "*/*" /\ Available # {}

\* C30: whenever the Accept header admits an available content type, by
\* its name or by */*, render answers with a response of an available
\* content type and not with 406; so it does for */* alone when the template
\* does not exist as .html and an encoder is available.
C30_AdmittedIsAnswered ==
    (Rendered /\ Admitted) =>
        /\ result.type = "Response"
        /\ result.mimetype \in Available
====
